---- MODULE Spec2Model ----
(***************************************************************************)
(* Conference moderator core: the conference state machine, its router,   *)
(* the per-session timer and the handler that wires them together.         *)
(*                                                                         *)
(* One run (one ConferenceHandler) is modelled.  Every action is one       *)
(* inbound signal handled to completion: the table transition, the         *)
(* observer fan-out (the handler's timer observer) and the routing that    *)
(* follows an entry into "transitioning".                                  *)
(*                                                                         *)
(* Time is in whole seconds.  The monotonic clock is not stored; the two   *)
(* clock readings the timer keeps (session_start_time, _pause_start) are   *)
(* stored as the time elapsed since they were taken, which is all the code *)
(* ever computes from them.  The clock advances with the timer loop's      *)
(* one-second sleep.                                                       *)
(***************************************************************************)
EXTENDS Integers, Sequences, FiniteSets, TLC

VARIABLES
    state,                  \* ConferenceStateMachine.state
    agenda,                 \* ConferenceContext.agenda (NoAgenda for None)
    store_agenda,           \* AgendaManager.agenda (NoAgenda for None)
    current_session_index,  \* ConferenceContext.current_session_index
    elapsed_seconds,        \* ConferenceContext.elapsed_seconds
    time_warning_issued,    \* ConferenceContext.time_warning_issued
    is_paused,              \* ConferenceContext.is_paused
    since_session_start,    \* clock - ConferenceContext.session_start_time (NoTime for None)
    task,                   \* SessionTimer._task: "none", "running", "done"
    total_seconds,          \* the running loop's local total_seconds
    timer_paused,           \* SessionTimer._paused
    pause_accumulated,      \* SessionTimer._pause_accumulated
    since_pause_start,      \* clock - SessionTimer._pause_start (NoTime for None)
    running,                \* ConferenceHandler.run: the receive loop is alive
    observers,              \* ConferenceStateMachine._on_state_change_callbacks
    in_flight,              \* per task: the operation suspended in a fan-out; for the
                            \* provider also the turn it has been asked for
    last,                   \* history: the operation handled last and what it did
    warn_signals,           \* history: time-warning signals the timer sent in this session
    expiry_signals,         \* history: time-expired signals the timer sent in this session
    script_pos              \* history: how far the run has followed Script (-1: left it)

vars == << state, agenda, store_agenda, current_session_index, elapsed_seconds,
           time_warning_issued, is_paused, since_session_start, task,
           total_seconds, timer_paused, pause_accumulated, since_pause_start,
           running, observers, in_flight, last, warn_signals, expiry_signals,
           script_pos >>

-----------------------------------------------------------------------------
(* Bounds of the model *)

\* Longest agenda loaded.
MaxSessions == 4

\* warn_signals counts up to this number and then stays.
MaxWarnSignals == 2

\* expiry_signals counts up to this number and then stays.
MaxExpirySignals == 2

\* The seconds the timer of one session spends paused, over all its pauses.
MaxPauseSeconds == 2

\* Longest list of phase-change observers.
MaxObservers == 3

-----------------------------------------------------------------------------
(* Program constants *)

SecondsPerMinute == 60

TickSeconds == 1

\* Settings.time_warning_threshold, in percent.
WarningThresholdPercent == 80

-----------------------------------------------------------------------------
(* Data model *)

ConferenceState ==
    { "idle", "opening", "introducing_speaker", "speaker_active", "interacting",
      "time_warning", "thanking_speaker", "transitioning", "break_announcement",
      "break_active", "break_ending", "closing", "ended" }

ACTIVE_SPEAKING_STATES ==
    { "opening", "introducing_speaker", "interacting", "time_warning",
      "thanking_speaker", "transitioning", "break_announcement", "break_ending",
      "closing" }

SILENT_STATES == { "idle", "speaker_active", "break_active", "ended" }

SessionType == { "opening", "keynote", "talk", "panel", "break", "qa", "closing" }

NoAgenda == << >>

NoSession == [type |-> "none", duration_minutes |-> 0]

NoTime == -1

ConferenceSession(t, d) == [type |-> t, duration_minutes |-> d]

\* The agenda of the state machine's tests: opening, keynote, break, closing.
make_test_agenda ==
    << ConferenceSession("opening", 1), ConferenceSession("keynote", 1),
       ConferenceSession("break", 1), ConferenceSession("closing", 1) >>

\* The valid agendas a LOAD_AGENDA message carries in this model: every
\* session type, a break followed by two sessions, a break as the last
\* session, a closing session before the end, a single session, an opening
\* in the middle.
CandidateAgendas ==
    { make_test_agenda,
      << ConferenceSession("opening", 1), ConferenceSession("break", 1),
         ConferenceSession("talk", 1), ConferenceSession("closing", 1) >>,
      << ConferenceSession("opening", 1), ConferenceSession("panel", 1),
         ConferenceSession("break", 1) >>,
      << ConferenceSession("opening", 1), ConferenceSession("qa", 1),
         ConferenceSession("opening", 1) >>,
      << ConferenceSession("keynote", 1), ConferenceSession("closing", 1),
         ConferenceSession("talk", 1) >>,
      << ConferenceSession("talk", 1) >>,
      << ConferenceSession("opening", 1), ConferenceSession("talk", 1),
         ConferenceSession("break", 1), ConferenceSession("panel", 1),
         ConferenceSession("qa", 1) >> }

Agendas == { a \in CandidateAgendas : Len(a) <= MaxSessions }

\* Session lists of LOAD_AGENDA payloads that fail validation: no session,
\* a duration of 0, a session without its duration, a type outside the enum.
MalformedPayloads ==
    { << >>,
      << [type |-> "talk", duration_minutes |-> 0] >>,
      << [type |-> "opening", duration_minutes |-> 1], [type |-> "talk"] >>,
      << [type |-> "lunch", duration_minutes |-> 1] >> }

Payloads == Agendas \cup MalformedPayloads

\* The validation of one session dict by ConferenceSession.
SessionValid(d) ==
    /\ "type" \in DOMAIN d
    /\ "duration_minutes" \in DOMAIN d
    /\ d.type \in SessionType
    /\ d.duration_minutes > 0

\* ConferenceAgenda.model_validate: the agenda built from the data, or a
\* validation error.
ModelValidate(data) ==
    IF Len(data) >= 1 /\ \A i \in 1..Len(data) : SessionValid(data[i])
    THEN [raised |-> FALSE,
          agenda |-> [i \in 1..Len(data) |->
                        ConferenceSession(data[i].type, data[i].duration_minutes)]]
    ELSE [raised |-> TRUE, agenda |-> NoAgenda]

\* load_from_dict dropping the agenda it holds before it validates the data.
LoadFromDictClearsStore(store, data) ==
    LET v == ModelValidate(data)
    IN  IF v.raised
        THEN [raised |-> TRUE, store |-> NoAgenda, agenda |-> NoAgenda]
        ELSE [raised |-> FALSE, store |-> v.agenda, agenda |-> v.agenda]

\* AgendaManager.load_from_dict: the store's agenda is assigned only once
\* the validation has returned.
LoadFromDict(store, data) ==
    LET v == ModelValidate(data)
    IN  IF v.raised
        THEN [raised |-> TRUE, store |-> store, agenda |-> NoAgenda]
        ELSE [raised |-> FALSE, store |-> v.agenda, agenda |-> v.agenda]

current_session(ag, i) ==
    IF ag # NoAgenda /\ 0 <= i /\ i < Len(ag) THEN ag[i + 1] ELSE NoSession

next_session(ag, i) ==
    IF ag # NoAgenda /\ i + 1 < Len(ag) THEN ag[i + 2] ELSE NoSession

\* (trigger, source, dest) of the transitions library's machine.
TRANSITIONS ==
    { << "start_conference", "idle", "opening" >>,
      << "opening_complete", "opening", "transitioning" >>,
      << "introduce_speaker", "transitioning", "introducing_speaker" >>,
      << "introduction_complete", "introducing_speaker", "speaker_active" >>,
      << "enter_interaction", "speaker_active", "interacting" >>,
      << "exit_interaction", "interacting", "speaker_active" >>,
      << "time_warning", "speaker_active", "time_warning" >>,
      << "time_warning", "interacting", "time_warning" >>,
      << "warning_delivered", "time_warning", "speaker_active" >>,
      << "speaker_finished", "speaker_active", "thanking_speaker" >>,
      << "speaker_finished", "interacting", "thanking_speaker" >>,
      << "speaker_finished", "time_warning", "thanking_speaker" >>,
      << "thank_complete", "thanking_speaker", "transitioning" >>,
      << "announce_break", "transitioning", "break_announcement" >>,
      << "break_announced", "break_announcement", "break_active" >>,
      << "break_ending_soon", "break_active", "break_ending" >>,
      << "break_over", "break_ending", "transitioning" >>,
      << "break_over", "break_active", "transitioning" >>,
      << "start_closing", "transitioning", "closing" >>,
      << "closing_complete", "closing", "ended" >>,
      << "operator_next", "speaker_active", "thanking_speaker" >>,
      << "operator_next", "interacting", "thanking_speaker" >>,
      << "operator_next", "time_warning", "thanking_speaker" >>,
      << "operator_next", "break_active", "transitioning" >>,
      << "operator_next", "opening", "transitioning" >> }

\* The phases in which the timer observer starts the timer.
timed_states == { "speaker_active", "interacting", "time_warning", "break_active" }

\* The phases in which the timer observer stops the timer.
stop_states == { "thanking_speaker", "transitioning", "ended" }

\* The asyncio tasks of a run that call the state machine: the handler's
\* receive loop, the provider connection's listen loop, the timer loop.
Tasks == { "operator", "provider", "timer" }

\* No operation of the task is suspended.
NoCall == [op |-> "", route |-> FALSE]

-----------------------------------------------------------------------------
(* The machine as one record, so that the steps of a handler compose.      *)
(* notified, routed and raised describe the handler call under way: the    *)
(* phases handed to the observers, the router runs, an error raised.       *)
(* fails is the input that says which observer calls of the handler call   *)
(* raise an error (fan-out number, position in the list); calls lists the  *)
(* observer calls made: position, phase handed over, outcome.              *)
(* by_timer says that the timer task makes the handler call, must_cancel   *)
(* that the task making it has been cancelled, cancelled that a timer loop *)
(* has been cancelled by any task; cut is the input that says              *)
(* how many commands the bridge's observer issues before the cancellation  *)
(* reaches it; issued lists the commands the bridge issued: fan-out        *)
(* number, phase, command.                                                 *)

\* The commands of RealtimeEventHandler._on_state_change for a phase, in
\* order: each is awaited.
BridgeCommands(s) ==
    << "update_instructions", "STATE_UPDATE" >>
    \o (IF s \in ACTIVE_SPEAKING_STATES /\ s \notin SILENT_STATES
        THEN << "MODERATOR_STATUS speaking", "trigger_speech" >>
        ELSE IF s \in SILENT_STATES THEN << "MODERATOR_STATUS idle" >>
        ELSE << >>)

\* The observer is not cut short: every command is issued.
NoCut == Len(BridgeCommands("opening"))

\* A cancelled task gets its CancelledError at the first await that
\* suspends it: before the first command, after any of them, or at no await
\* of the observer.
Cuts == 0..NoCut

Machine ==
    [ state |-> state,
      index |-> current_session_index,
      elapsed |-> elapsed_seconds,
      warned |-> time_warning_issued,
      since_start |-> since_session_start,
      task |-> task,
      total |-> total_seconds,
      paused |-> timer_paused,
      pause_acc |-> pause_accumulated,
      since_pause |-> since_pause_start,
      observers |-> observers,
      fails |-> {},
      calls |-> << >>,
      by_timer |-> FALSE,
      must_cancel |-> FALSE,
      cancelled |-> FALSE,
      cut |-> NoCut,
      issued |-> << >>,
      notified |-> << >>,
      routed |-> 0,
      raised |-> FALSE ]

\* SessionTimer.stop dropping the task without cancelling it.
TimerStopNoCancel(m) == [m EXCEPT !.task = "none"]

\* SessionTimer.stop: a loop that is not done is cancelled; when the timer
\* task itself makes the call, the task cancelled is the one running.
TimerStop(m) ==
    [m EXCEPT !.task = "none",
              !.cancelled = @ \/ m.task = "running",
              !.must_cancel = @ \/ (m.by_timer /\ m.task = "running")]

\* SessionTimer.start keeping the start time of the session before.
TimerStartKeepsStartTime(ag, m) ==
    LET session == current_session(ag, m.index)
    IN  [m EXCEPT !.must_cancel = @ \/ (m.by_timer /\ m.task = "running"),
                  !.cancelled = @ \/ m.task = "running",
                  !.paused = FALSE,
                  !.pause_acc = 0,
                  !.since_pause = NoTime,
                  !.since_start = IF @ = NoTime THEN 0 ELSE @,
                  !.elapsed = 0,
                  !.task = IF session = NoSession THEN "done" ELSE "running",
                  !.total = IF session = NoSession
                            THEN 0
                            ELSE session.duration_minutes * SecondsPerMinute]

\* SessionTimer.start, which begins with stop(), and the first lines of the
\* loop it creates: the loop reads the current session and ends at once when
\* there is none.
TimerStart(ag, m) ==
    LET session == current_session(ag, m.index)
    IN  [m EXCEPT !.must_cancel = @ \/ (m.by_timer /\ m.task = "running"),
                  !.cancelled = @ \/ m.task = "running",
                  !.paused = FALSE,
                  !.pause_acc = 0,
                  !.since_pause = NoTime,
                  !.since_start = 0,
                  !.elapsed = 0,
                  !.task = IF session = NoSession THEN "done" ELSE "running",
                  !.total = IF session = NoSession
                            THEN 0
                            ELSE session.duration_minutes * SecondsPerMinute]

\* SessionTimer.pause taking a new pause-start on every call.
TimerPauseRestarts(m) == [m EXCEPT !.paused = TRUE, !.since_pause = 0]

\* SessionTimer.pause
TimerPause(m) ==
    IF ~m.paused THEN [m EXCEPT !.paused = TRUE, !.since_pause = 0] ELSE m

\* SessionTimer.resume
TimerResume(m) ==
    IF m.paused /\ m.since_pause # NoTime
    THEN [m EXCEPT !.pause_acc = @ + m.since_pause,
                   !.since_pause = NoTime,
                   !.paused = FALSE]
    ELSE m

\* ConferenceHandler._on_state_change_timer
OnStateChangeTimer(ag, m) ==
    IF m.state \in timed_states THEN TimerStart(ag, m)
    ELSE IF m.state \in stop_states THEN TimerStop(m)
    ELSE m

\* RealtimeEventHandler._on_state_change, registered after the handler's
\* timer observer: the commands it issues for the phase handed over.  In a
\* task that has been cancelled it ends at the await that suspends it.
OnStateChange(m, s) ==
    IF \A i \in 1..Len(m.observers) : m.observers[i] # "bridge" THEN m
    ELSE LET commands == BridgeCommands(s)
             n == IF m.must_cancel /\ m.cut < Len(commands) THEN m.cut
                  ELSE Len(commands)
             pos == CHOOSE i \in 1..Len(m.observers) : m.observers[i] = "bridge"
             call == Len(m.calls) - Len(m.observers) + pos
         IN  [m EXCEPT !.issued =
                 @ \o [j \in 1..n |-> << Len(m.notified), s, commands[j] >>],
                       !.calls[call][3] =
                           IF n < Len(commands) THEN "cancelled" ELSE @]

\* The callbacks of a fan-out, called in order: position, phase, outcome.
FanOutCalls(m, upto) ==
    [i \in 1..upto |->
        << i, m.state,
           IF << Len(m.notified) + 1, i >> \in m.fails THEN "raised" ELSE "ok" >>]

\* The fan-out ending at the first callback that raises.
NotifyStateChangeStopsAtError(ag, m) ==
    LET raising == { i \in 1..Len(m.observers) :
                       << Len(m.notified) + 1, i >> \in m.fails }
        upto == IF raising = {} THEN Len(m.observers)
                ELSE CHOOSE i \in raising : \A j \in raising : i <= j
    IN  OnStateChangeTimer(ag, [m EXCEPT !.notified = Append(@, m.state),
                                         !.calls = @ \o FanOutCalls(m, upto)])

\* ConferenceStateMachine._notify_state_change: every registered callback is
\* awaited in registration order with the phase read at the start; an error
\* of a callback is caught and logged.  The handler's timer observer is the
\* callback that acts on the timer; the other callbacks send messages.
NotifyStateChange(ag, m) ==
    OnStateChange(
        OnStateChangeTimer(ag, [m EXCEPT !.notified = Append(@, m.state),
                                         !.calls = @ \o FanOutCalls(m, Len(m.observers))]),
        m.state)

\* A trigger method of the machine: the table's destination, or MachineError.
HasTransition(trigger, source) ==
    \E t \in TRANSITIONS : t[1] = trigger /\ t[2] = source

Trigger(m, trigger) ==
    IF HasTransition(trigger, m.state)
    THEN [m EXCEPT !.state =
             (CHOOSE t \in TRANSITIONS : t[1] = trigger /\ t[2] = m.state)[3]]
    ELSE [m EXCEPT !.raised = TRUE]

\* A trigger followed by the fan-out; an error skips the fan-out.
Fire(ag, m, trigger) ==
    LET t == Trigger(m, trigger)
    IN  IF t.raised THEN t ELSE NotifyStateChange(ag, t)

-----------------------------------------------------------------------------
(* ConferenceStateMachine: routing and the high-level operations *)

\* The router dispatching on the session it leaves instead of the one it
\* moves to.
RouteTransitionStaleSession(ag, m) ==
    IF m.state # "transitioning" THEN m
    ELSE
      LET r == [m EXCEPT !.routed = @ + 1]
      IN  IF next_session(ag, r.index) = NoSession
          THEN Fire(ag, r, "start_closing")
          ELSE
            LET a == [r EXCEPT !.index = @ + 1, !.elapsed = 0, !.warned = FALSE]
                session == current_session(ag, r.index)
            IN  IF session.type = "break" THEN Fire(ag, a, "announce_break")
                ELSE IF session.type = "closing" THEN Fire(ag, a, "start_closing")
                ELSE Fire(ag, a, "introduce_speaker")

\* The router without its branch for a closing session.
RouteTransitionNoClosingBranch(ag, m) ==
    IF m.state # "transitioning" THEN m
    ELSE
      LET r == [m EXCEPT !.routed = @ + 1]
      IN  IF next_session(ag, r.index) = NoSession
          THEN Fire(ag, r, "start_closing")
          ELSE
            LET a == [r EXCEPT !.index = @ + 1, !.elapsed = 0, !.warned = FALSE]
                session == current_session(ag, a.index)
            IN  IF session.type = "break" THEN Fire(ag, a, "announce_break")
                ELSE Fire(ag, a, "introduce_speaker")

\* The router advancing the index without resetting the warning flag and the
\* elapsed time.
RouteTransitionKeepsWarning(ag, m) ==
    IF m.state # "transitioning" THEN m
    ELSE
      LET r == [m EXCEPT !.routed = @ + 1]
      IN  IF next_session(ag, r.index) = NoSession
          THEN Fire(ag, r, "start_closing")
          ELSE
            LET a == [r EXCEPT !.index = @ + 1]
                session == current_session(ag, a.index)
            IN  IF session.type = "break" THEN Fire(ag, a, "announce_break")
                ELSE IF session.type = "closing" THEN Fire(ag, a, "start_closing")
                ELSE Fire(ag, a, "introduce_speaker")

\* ConferenceStateMachine._route_transition
RouteTransition(ag, m) ==
    IF m.state # "transitioning" THEN m
    ELSE
      LET r == [m EXCEPT !.routed = @ + 1]
      IN  IF next_session(ag, r.index) = NoSession
          THEN Fire(ag, r, "start_closing")
          ELSE
            LET a == [r EXCEPT !.index = @ + 1, !.elapsed = 0, !.warned = FALSE]
                session == current_session(ag, a.index)
            IN  IF session = NoSession THEN Fire(ag, a, "start_closing")
                ELSE IF session.type = "break" THEN Fire(ag, a, "announce_break")
                ELSE IF session.type = "closing" THEN Fire(ag, a, "start_closing")
                ELSE IF session.type \in { "keynote", "talk", "panel", "qa" }
                     THEN Fire(ag, a, "introduce_speaker")
                ELSE Fire(ag, a, "introduce_speaker")

\* handle_start starting the conference again once it has ended.
HandleStartFromEnded(ag, m) ==
    IF m.state = "ended"
    THEN NotifyStateChange(ag, [m EXCEPT !.state = "opening"])
    ELSE Fire(ag, m, "start_conference")

\* ConferenceStateMachine.handle_start
HandleStart(ag, m) == Fire(ag, m, "start_conference")

\* handle_response_done also taking the table's break_over from break_active.
HandleResponseDoneFromBreakActive(ag, m) ==
    IF m.state = "opening"
    THEN RouteTransition(ag, Fire(ag, m, "opening_complete"))
    ELSE IF m.state = "introducing_speaker"
    THEN Fire(ag, m, "introduction_complete")
    ELSE IF m.state = "time_warning"
    THEN Fire(ag, m, "warning_delivered")
    ELSE IF m.state = "thanking_speaker"
    THEN RouteTransition(ag, Fire(ag, m, "thank_complete"))
    ELSE IF m.state = "break_announcement"
    THEN Fire(ag, m, "break_announced")
    ELSE IF m.state \in { "break_ending", "break_active" }
    THEN RouteTransition(ag,
           Fire(ag, [m EXCEPT !.index = @ + 1, !.elapsed = 0, !.warned = FALSE],
                "break_over"))
    ELSE IF m.state = "closing"
    THEN Fire(ag, m, "closing_complete")
    ELSE m

\* handle_response_done clearing the warning flag once the warning is spoken.
HandleResponseDoneClearsWarning(ag, m) ==
    IF m.state = "opening"
    THEN RouteTransition(ag, Fire(ag, m, "opening_complete"))
    ELSE IF m.state = "introducing_speaker"
    THEN Fire(ag, m, "introduction_complete")
    ELSE IF m.state = "time_warning"
    THEN Fire(ag, [m EXCEPT !.warned = FALSE], "warning_delivered")
    ELSE IF m.state = "thanking_speaker"
    THEN RouteTransition(ag, Fire(ag, m, "thank_complete"))
    ELSE IF m.state = "break_announcement"
    THEN Fire(ag, m, "break_announced")
    ELSE IF m.state = "break_ending"
    THEN RouteTransition(ag,
           Fire(ag, [m EXCEPT !.index = @ + 1, !.elapsed = 0, !.warned = FALSE],
                "break_over"))
    ELSE IF m.state = "closing"
    THEN Fire(ag, m, "closing_complete")
    ELSE m

\* ConferenceStateMachine.handle_response_done
HandleResponseDone(ag, m) ==
    IF m.state = "opening"
    THEN RouteTransition(ag, Fire(ag, m, "opening_complete"))
    ELSE IF m.state = "introducing_speaker"
    THEN Fire(ag, m, "introduction_complete")
    ELSE IF m.state = "time_warning"
    THEN Fire(ag, m, "warning_delivered")
    ELSE IF m.state = "thanking_speaker"
    THEN RouteTransition(ag, Fire(ag, m, "thank_complete"))
    ELSE IF m.state = "break_announcement"
    THEN Fire(ag, m, "break_announced")
    ELSE IF m.state = "break_ending"
    THEN RouteTransition(ag,
           Fire(ag, [m EXCEPT !.index = @ + 1, !.elapsed = 0, !.warned = FALSE],
                "break_over"))
    ELSE IF m.state = "closing"
    THEN Fire(ag, m, "closing_complete")
    ELSE m

\* handle_operator_next letting the MachineError of an invalid trigger
\* through to its caller.
HandleOperatorNextPropagates(ag, m) == Fire(ag, m, "operator_next")

\* ConferenceStateMachine.handle_operator_next: the MachineError of an
\* invalid trigger is caught and logged.
HandleOperatorNext(ag, m) ==
    LET t == Fire(ag, m, "operator_next")
    IN  IF t.raised THEN m ELSE t

\* handle_advance_session treating the reason operator_skip as the
\* operator's Next button.
HandleAdvanceSessionSkipAsNext(ag, m, reason) ==
    IF reason = "operator_skip" THEN HandleOperatorNext(ag, m)
    ELSE IF m.state \in { "speaker_active", "interacting", "time_warning" }
    THEN Fire(ag, m, "speaker_finished")
    ELSE IF m.state = "opening"
    THEN RouteTransition(ag, Fire(ag, m, "opening_complete"))
    ELSE m

\* ConferenceStateMachine.handle_advance_session; the reason is not read.
HandleAdvanceSession(ag, m, reason) ==
    IF m.state \in { "speaker_active", "interacting", "time_warning" }
    THEN Fire(ag, m, "speaker_finished")
    ELSE IF m.state = "opening"
    THEN RouteTransition(ag, Fire(ag, m, "opening_complete"))
    ELSE m

\* ConferenceStateMachine.handle_time_warning
HandleTimeWarning(ag, m) ==
    IF m.state \in { "speaker_active", "interacting" }
    THEN Fire(ag, [m EXCEPT !.warned = TRUE], "time_warning")
    ELSE m

\* handle_time_expired ending a break at once instead of announcing its end.
HandleTimeExpiredEndsBreak(ag, m) ==
    IF m.state \in { "speaker_active", "interacting", "time_warning" }
    THEN Fire(ag, m, "speaker_finished")
    ELSE IF m.state = "break_active"
    THEN Fire(ag, m, "break_over")
    ELSE m

\* ConferenceStateMachine.handle_time_expired
HandleTimeExpired(ag, m) ==
    IF m.state \in { "speaker_active", "interacting", "time_warning" }
    THEN Fire(ag, m, "speaker_finished")
    ELSE IF m.state = "break_active"
    THEN Fire(ag, m, "break_ending_soon")
    ELSE m

\* handle_toggle_interact clearing the warning flag when the interaction
\* begins.
HandleToggleInteractClearsWarning(ag, m) ==
    IF m.state = "speaker_active"
    THEN Fire(ag, [m EXCEPT !.warned = FALSE], "enter_interaction")
    ELSE IF m.state = "interacting" THEN Fire(ag, m, "exit_interaction")
    ELSE m

\* ConferenceStateMachine.handle_toggle_interact
HandleToggleInteract(ag, m) ==
    IF m.state = "speaker_active" THEN Fire(ag, m, "enter_interaction")
    ELSE IF m.state = "interacting" THEN Fire(ag, m, "exit_interaction")
    ELSE m

-----------------------------------------------------------------------------
(* SessionTimer._run and the provider bridge *)

\* handle_response_done up to the end of its first fan-out; the call of the
\* router that follows in the code acts when this ends in transitioning.
ResponseDoneTransition(ag, m) ==
    IF m.state = "opening" THEN Fire(ag, m, "opening_complete")
    ELSE IF m.state = "introducing_speaker" THEN Fire(ag, m, "introduction_complete")
    ELSE IF m.state = "time_warning" THEN Fire(ag, m, "warning_delivered")
    ELSE IF m.state = "thanking_speaker" THEN Fire(ag, m, "thank_complete")
    ELSE IF m.state = "break_announcement" THEN Fire(ag, m, "break_announced")
    ELSE IF m.state = "break_ending"
    THEN Fire(ag, [m EXCEPT !.index = @ + 1, !.elapsed = 0, !.warned = FALSE],
              "break_over")
    ELSE IF m.state = "closing" THEN Fire(ag, m, "closing_complete")
    ELSE m

\* The phases in which handle_response_done calls the router after its
\* trigger.
RoutedPhases == { "opening", "thanking_speaker", "break_ending" }

\* The timer loop going back to its sleep after it sent time-expired.
TimerRunNoReturn(ag, m) ==
    LET woken == [m EXCEPT
                    !.by_timer = TRUE,
                    !.since_start = IF @ = NoTime THEN @ ELSE @ + TickSeconds,
                    !.since_pause = IF @ = NoTime THEN @ ELSE @ + TickSeconds]
    IN  IF woken.paused \/ woken.since_start = NoTime
        THEN [m |-> woken, signal |-> ""]
        ELSE
          LET elapsed == woken.since_start - woken.pause_acc
              total == woken.total
              remaining == IF total - elapsed > 0 THEN total - elapsed ELSE 0
              ticked == [woken EXCEPT !.elapsed = elapsed]
              warn == /\ ~ticked.warned
                      /\ elapsed * 100 >= WarningThresholdPercent * total
                      /\ remaining > 0
              warned == IF warn THEN HandleTimeWarning(ag, ticked) ELSE ticked
              expired == IF remaining <= 0
                         THEN LET e == HandleTimeExpired(ag, warned)
                              IN  [e EXCEPT !.task = @]
                         ELSE warned
          IN  [m |-> expired,
               signal |-> IF warn THEN "time_warning"
                          ELSE IF remaining <= 0 THEN "time_expired" ELSE ""]

\* SessionTimer._run: one pass of the loop, from the end of the sleep to the
\* next sleep or to the loop's end, and the signal the pass sent to the
\* state machine.  The tick observers only send TIMER_TICK.  A loop that
\* start() replaced or stop() cancelled during the pass ends at its next
\* sleep; the loop that goes on is the one start() created.
TimerRun(ag, m) ==
    LET woken == [m EXCEPT
                    !.by_timer = TRUE,
                    !.since_start = IF @ = NoTime THEN @ ELSE @ + TickSeconds,
                    !.since_pause = IF @ = NoTime THEN @ ELSE @ + TickSeconds]
    IN  IF woken.paused \/ woken.since_start = NoTime
        THEN [m |-> woken, signal |-> ""]
        ELSE
          LET elapsed == woken.since_start - woken.pause_acc
              total == woken.total
              remaining == IF total - elapsed > 0 THEN total - elapsed ELSE 0
              ticked == [woken EXCEPT !.elapsed = elapsed]
              warn == /\ ~ticked.warned
                      /\ elapsed * 100 >= WarningThresholdPercent * total
                      /\ remaining > 0
              warned == IF warn THEN HandleTimeWarning(ag, ticked) ELSE ticked
              expired == IF remaining <= 0
                         THEN LET e == HandleTimeExpired(ag, warned)
                              IN  [e EXCEPT !.task = IF @ = "running" THEN "done" ELSE @]
                         ELSE warned
          IN  [m |-> expired,
               signal |-> IF warn THEN "time_warning"
                          ELSE IF remaining <= 0 THEN "time_expired" ELSE ""]

\* SessionTimer._run from the end of the sleep to the tick observers: a
\* paused timer goes back to sleep; otherwise the pass writes the elapsed
\* time and calls the tick observers with it (notified).
TimerPassToObservers(m) ==
    LET woken == [m EXCEPT
                    !.by_timer = TRUE,
                    !.since_start = IF @ = NoTime THEN @ ELSE @ + TickSeconds,
                    !.since_pause = IF @ = NoTime THEN @ ELSE @ + TickSeconds]
    IN  IF woken.paused \/ woken.since_start = NoTime
        THEN [m |-> woken, notified |-> FALSE, elapsed |-> 0]
        ELSE LET elapsed == woken.since_start - woken.pause_acc
             IN  [m |-> [woken EXCEPT !.elapsed = elapsed], notified |-> TRUE,
                  elapsed |-> elapsed]

\* SessionTimer._run from the return of the tick observers to the next sleep
\* or the loop's end: the warning and the expiry are decided from the pass's
\* locals elapsed and total_seconds and from the warning flag as it is now.
TimerPassSignals(ag, m0, elapsed) ==
    LET m == [m0 EXCEPT !.by_timer = TRUE]
        total == m.total
        remaining == IF total - elapsed > 0 THEN total - elapsed ELSE 0
        warn == /\ ~m.warned
                /\ elapsed * 100 >= WarningThresholdPercent * total
                /\ remaining > 0
        warned == IF warn THEN HandleTimeWarning(ag, m) ELSE m
        expired == IF remaining <= 0
                   THEN LET e == HandleTimeExpired(ag, warned)
                        IN  [e EXCEPT !.task = IF @ = "running" THEN "done" ELSE @]
                   ELSE warned
    IN  [m |-> expired,
         signal |-> IF warn THEN "time_warning"
                    ELSE IF remaining <= 0 THEN "time_expired" ELSE ""]

\* _on_turn_complete forwarding the event while a speaker is on stage.
OnTurnCompleteInSpeakerActive(ag, m) ==
    IF m.state \in SILENT_STATES \ { "speaker_active" }
    THEN [m |-> m, forwarded |-> FALSE]
    ELSE [m |-> HandleResponseDone(ag, m), forwarded |-> TRUE]

\* RealtimeEventHandler._on_turn_complete
OnTurnComplete(ag, m) ==
    IF m.state \in SILENT_STATES
    THEN [m |-> m, forwarded |-> FALSE]
    ELSE [m |-> HandleResponseDone(ag, m), forwarded |-> TRUE]

-----------------------------------------------------------------------------
(* AgendaManager: the projections for the provider's tools                 *)
(* An optional field is << >> for None and << v >> for the value v.  The   *)
(* sessions of these agendas carry every field of ConferenceSession.       *)

None == << >>

SpeakerInfo(name, title, organization, talk_title, bio) ==
    [name |-> name, title |-> title, organization |-> organization,
     talk_title |-> talk_title, bio |-> bio, pronunciation_hint |-> None]

\* The agenda of the agenda manager's tests.
SAMPLE_AGENDA ==
    << [id |-> "opening", type |-> "opening", title |-> "Acilis",
        duration_minutes |-> 5, description |-> None, speaker |-> None,
        panelists |-> None, notes |-> None],
       [id |-> "talk-1", type |-> "talk", title |-> "Test Sunum",
        duration_minutes |-> 20, description |-> None,
        speaker |-> << SpeakerInfo("Ali Veli", "Muhendis", "TestCo",
                                   "Test Konusu", << "Test bio" >>) >>,
        panelists |-> None, notes |-> None],
       [id |-> "closing", type |-> "closing", title |-> "Kapanis",
        duration_minutes |-> 3, description |-> None, speaker |-> None,
        panelists |-> None, notes |-> None] >>

\* An agenda whose sessions use the other optional fields: a speaker without
\* a bio, panelists, an empty list of panelists, notes, empty notes, a
\* description.
PANEL_AGENDA ==
    << [id |-> "k", type |-> "keynote", title |-> "Keynote",
        duration_minutes |-> 1, description |-> << "About" >>,
        speaker |-> << SpeakerInfo("Ada", "Prof", "Uni", "Engines", None) >>,
        panelists |-> << << >> >>, notes |-> << "" >>],
       [id |-> "p", type |-> "panel", title |-> "Panel",
        duration_minutes |-> 1, description |-> None, speaker |-> None,
        panelists |-> << << SpeakerInfo("Bo", "Dr", "Lab", "", None),
                            SpeakerInfo("Cy", "Ms", "Org", "", << "b" >>) >> >>,
        notes |-> << "Keep it short" >>] >>

QueryAgendas == { SAMPLE_AGENDA, PANEL_AGENDA }

\* The elapsed seconds of the contexts the projections are applied to; the
\* sessions last 60, 180, 300 and 1200 seconds.
QueryElapsed == { 0, 1, 30, 48, 60, 61, 300, 1200 }

\* round(n / d) of Python for n >= 0, d > 0: to the nearest integer, a tie to
\* the even one.
Round(n, d) ==
    LET q == n \div d
        r == n % d
    IN  IF 2 * r < d THEN q
        ELSE IF 2 * r > d THEN q + 1
        ELSE IF q % 2 = 0 THEN q ELSE q + 1

\* The fields of a speaker that get_session_info returns.
speaker_dict(s) ==
    [name |-> s.name, title |-> s.title, organization |-> s.organization,
     talk_title |-> s.talk_title, bio |-> IF s.bio = None THEN "" ELSE s.bio[1]]

panelist_dict(p) ==
    [name |-> p.name, title |-> p.title, organization |-> p.organization]

\* get_session_info answering a request for the next session with the
\* current one.
get_session_info_ignores_which(ag, index, which) ==
    LET session == current_session(ag, index)
    IN  IF session = NoSession THEN [error |-> "Oturum bulunamadi"]
        ELSE [session_index |-> index, session_id |-> session.id,
              type |-> session.type, title |-> session.title,
              duration_minutes |-> session.duration_minutes]

\* AgendaManager.get_session_info
get_session_info(ag, index, which) ==
    LET session == IF which = "next" THEN next_session(ag, index)
                   ELSE current_session(ag, index)
        i == IF which = "next" THEN index + 1 ELSE index
    IN  IF session = NoSession THEN [error |-> "Oturum bulunamadi"]
        ELSE [session_index |-> i, session_id |-> session.id,
              type |-> session.type, title |-> session.title,
              duration_minutes |-> session.duration_minutes]
             @@ (IF session.speaker # None
                 THEN [speaker |-> speaker_dict(session.speaker[1])] ELSE << >>)
             @@ (IF session.panelists # None /\ session.panelists[1] # << >>
                 THEN [panelists |->
                         [k \in 1..Len(session.panelists[1]) |->
                            panelist_dict(session.panelists[1][k])]]
                 ELSE << >>)
             @@ (IF session.notes # None /\ session.notes[1] # ""
                 THEN [notes |-> session.notes[1]] ELSE << >>)
             @@ (IF session.description # None /\ session.description[1] # ""
                 THEN [description |-> session.description[1]] ELSE << >>)

\* get_time_remaining taking the remaining time without its lower limit 0.
get_time_remaining_unclamped(ag, index, elapsed) ==
    LET session == current_session(ag, index)
        total == session.duration_minutes * SecondsPerMinute
    IN  IF session = NoSession THEN [error |-> "Aktif oturum yok"]
        ELSE [session_title |-> session.title,
              total_seconds |-> total,
              elapsed_seconds |-> Round(elapsed, 1),
              remaining_seconds |-> Round(total - elapsed, 1),
              remaining_minutes |-> Round(10 * (total - elapsed), SecondsPerMinute),
              progress_percent |->
                  Round(1000 * (IF elapsed < total THEN elapsed ELSE total), total)]

\* AgendaManager.get_time_remaining, with ConferenceContext.remaining_seconds
\* and progress_ratio.  remaining_minutes and progress_percent are rounded
\* to one decimal and are given here in tenths.
get_time_remaining(ag, index, elapsed) ==
    LET session == current_session(ag, index)
        total == session.duration_minutes * SecondsPerMinute
        remaining == IF total - elapsed > 0 THEN total - elapsed ELSE 0
        capped == IF elapsed < total THEN elapsed ELSE total
    IN  IF session = NoSession THEN [error |-> "Aktif oturum yok"]
        ELSE [session_title |-> session.title,
              total_seconds |-> total,
              elapsed_seconds |-> Round(elapsed, 1),
              remaining_seconds |-> Round(remaining, 1),
              remaining_minutes |-> Round(10 * remaining, SecondsPerMinute),
              progress_percent |-> Round(1000 * capped, total)]

\* The names of CONFERENCE_TOOLS.
ToolNames ==
    { "advance_to_next_session", "check_time_remaining", "get_session_info",
      "announce_time_warning" }

\* A tool call without arguments: the dict is empty.
NoArguments == << >>

\* args.get(key, default)
ArgGet(arguments, key, default) ==
    IF key \in DOMAIN arguments THEN arguments[key] ELSE default

\* ToolHandler._announce_time_warning
announce_time_warning(ag, index, arguments) ==
    LET session == current_session(ag, index)
    IN  [status |-> "ok",
         speaker_name |-> IF session # NoSession /\ session.speaker # None
                          THEN session.speaker[1].name ELSE "",
         minutes_remaining |-> ArgGet(arguments, "minutes_remaining", 5)]

\* handle_function_call marking the warning as issued when the provider
\* announces it.
handle_function_call_marks_warning(ag, m, name, arguments) ==
    IF name = "advance_to_next_session"
    THEN LET a == HandleAdvanceSession(ag, m, ArgGet(arguments, "reason",
                                                     "speaker_finished"))
         IN  [m |-> a,
              result |-> [status |-> "ok",
                          new_session |-> get_session_info(ag, a.index, "current")]]
    ELSE IF name = "check_time_remaining"
    THEN [m |-> m, result |-> get_time_remaining(ag, m.index, m.elapsed)]
    ELSE IF name = "get_session_info"
    THEN [m |-> m,
          result |-> get_session_info(ag, m.index,
                                      ArgGet(arguments, "which", "current"))]
    ELSE IF name = "announce_time_warning"
    THEN [m |-> [m EXCEPT !.warned = TRUE],
          result |-> announce_time_warning(ag, m.index, arguments)]
    ELSE [m |-> m, result |-> [error |-> "Bilinmeyen fonksiyon"]]

\* ToolHandler.handle_function_call: the machine after the call and the
\* result returned to the provider.
handle_function_call(ag, m, name, arguments) ==
    IF name = "advance_to_next_session"
    THEN LET a == HandleAdvanceSession(ag, m, ArgGet(arguments, "reason",
                                                     "speaker_finished"))
         IN  [m |-> a,
              result |-> [status |-> "ok",
                          new_session |-> get_session_info(ag, a.index, "current")]]
    ELSE IF name = "check_time_remaining"
    THEN [m |-> m, result |-> get_time_remaining(ag, m.index, m.elapsed)]
    ELSE IF name = "get_session_info"
    THEN [m |-> m,
          result |-> get_session_info(ag, m.index,
                                      ArgGet(arguments, "which", "current"))]
    ELSE IF name = "announce_time_warning"
    THEN [m |-> m, result |-> announce_time_warning(ag, m.index, arguments)]
    ELSE [m |-> m, result |-> [error |-> "Bilinmeyen fonksiyon"]]

-----------------------------------------------------------------------------
(* History *)

\* The operations of the state machine test's full flow, in order.
Script ==
    << << "start", "" >>,
       << "responseDone", "" >>,
       << "responseDone", "" >>,
       << "advanceSession", "speaker_finished" >>,
       << "responseDone", "" >>,
       << "responseDone", "" >>,
       << "timeExpired", "" >>,
       << "responseDone", "" >>,
       << "responseDone", "" >> >>

\* A tick that sends no signal calls no operation of the state machine; one
\* that sends a signal calls handle_time_warning or handle_time_expired.  A
\* forwarded turn-complete event calls handle_response_done; PAUSE, RESUME,
\* a message of an unknown type and a turn-complete event that is not
\* forwarded and the registration of an observer call no operation.
ScriptNext(op, arg) ==
    LET call == IF op = "responseDone" THEN << "responseDone", "" >>
                ELSE IF op # "tick" THEN << op, arg >>
                ELSE IF arg = "time_warning" THEN << "timeWarning", "" >>
                ELSE << "timeExpired", "" >>
    IN  IF (op = "tick" /\ arg = "")
           \/ op \in { "pause", "resume", "message", "turnComplete", "register" }
        THEN script_pos
        ELSE IF script_pos >= 0 /\ script_pos < Len(Script)
                /\ Script[script_pos + 1] = call
        THEN script_pos + 1
        ELSE -1

Reasons == { "speaker_finished", "time_expired", "break_over", "operator_skip" }

\* The variables after a handler call that took the machine to m and in which
\* the timer sent `sent` time-warning signals.
Commit(m, op, arg, sent) ==
    /\ state' = m.state
    /\ current_session_index' = m.index
    /\ elapsed_seconds' = m.elapsed
    /\ time_warning_issued' = m.warned
    /\ since_session_start' = m.since_start
    /\ task' = m.task
    /\ total_seconds' = m.total
    /\ timer_paused' = m.paused
    /\ pause_accumulated' = m.pause_acc
    /\ since_pause_start' = m.since_pause
    /\ observers' = m.observers
    /\ last' = [op |-> op, arg |-> arg, from |-> state,
                notified |-> m.notified, routed |-> m.routed, raised |-> m.raised,
                calls |-> m.calls, issued |-> m.issued]
    /\ warn_signals' = IF m.index # current_session_index THEN 0
                       ELSE IF warn_signals + sent > MaxWarnSignals THEN MaxWarnSignals
                       ELSE warn_signals + sent
    /\ expiry_signals' = IF m.index # current_session_index THEN 0
                         ELSE IF op = "tick" /\ arg = "time_expired"
                         THEN IF expiry_signals + 1 > MaxExpirySignals
                              THEN MaxExpirySignals
                              ELSE expiry_signals + 1
                         ELSE expiry_signals
    /\ script_pos' = ScriptNext(op, arg)

-----------------------------------------------------------------------------
(* Actions *)

Init ==
    /\ state = "idle"
    /\ agenda = NoAgenda
    /\ store_agenda = NoAgenda
    /\ current_session_index = 0
    /\ elapsed_seconds = 0
    /\ time_warning_issued = FALSE
    /\ is_paused = FALSE
    /\ since_session_start = NoTime
    /\ task = "none"
    /\ total_seconds = 0
    /\ timer_paused = FALSE
    /\ pause_accumulated = 0
    /\ since_pause_start = NoTime
    /\ running = TRUE
    /\ observers = << "timer" >>
    /\ in_flight = [t \in Tasks |-> NoCall]
    /\ last = [op |-> "init", arg |-> "", from |-> "idle",
               notified |-> << >>, routed |-> 0, raised |-> FALSE,
               calls |-> << >>, issued |-> << >>]
    /\ warn_signals = 0
    /\ expiry_signals = 0
    /\ script_pos = 0

\* ConferenceHandler._handle_load_agenda: the context's agenda is assigned
\* when load_from_dict returns; a validation error is answered with an ERROR
\* message (arg "error") and nothing else happens.
LoadAgenda(data) ==
    /\ running
    /\ LET r == LoadFromDict(store_agenda, data)
       IN  /\ store_agenda' = r.store
           /\ agenda' = IF r.raised THEN agenda ELSE r.agenda
           /\ last' = [op |-> "loadAgenda", arg |-> IF r.raised THEN "error" ELSE "",
                       from |-> state, notified |-> << >>, routed |-> 0,
                       raised |-> FALSE, calls |-> << >>, issued |-> << >>,
                       payload |-> data]
           /\ warn_signals' = IF r.raised THEN warn_signals ELSE 0
           /\ script_pos' = IF r.raised \/ script_pos = 0 THEN script_pos ELSE -1
    /\ UNCHANGED << state, current_session_index, elapsed_seconds,
                    time_warning_issued, is_paused, since_session_start, task,
                    total_seconds, timer_paused, pause_accumulated,
                    since_pause_start, running, observers, in_flight,
                    expiry_signals >>

\* The callbacks after the first START_CONFERENCE with an agenda: it
\* connects the provider and constructs the bridge, which registers its
\* observer.
Connected(m) ==
    IF \E i \in 1..Len(m.observers) : m.observers[i] = "bridge" THEN m
    ELSE [m EXCEPT !.observers = Append(@, "bridge")]

\* ConferenceHandler._handle_start_conference: refused without an agenda;
\* a MachineError of handle_start leaves _handle_message and ends run(),
\* whose cleanup stops the timer.
StartConference ==
    /\ running
    /\ LET m == IF agenda = NoAgenda THEN Machine
                ELSE HandleStart(agenda, Connected(Machine))
       IN  /\ Commit(IF m.raised THEN TimerStop(m) ELSE m, "start", "", 0)
           /\ running' = ~m.raised
    /\ UNCHANGED << agenda, store_agenda, is_paused, in_flight >>

\* handle_response_done
ResponseDone ==
    /\ running
    /\ Commit(HandleResponseDone(agenda, Machine), "responseDone", "", 0)
    /\ UNCHANGED << agenda, store_agenda, is_paused, running, in_flight >>

\* handle_advance_session(reason)
AdvanceSession(reason) ==
    /\ running
    /\ Commit(HandleAdvanceSession(agenda, Machine, reason), "advanceSession", reason, 0)
    /\ UNCHANGED << agenda, store_agenda, is_paused, running, in_flight >>

\* handle_operator_next
OperatorNext ==
    /\ running
    /\ Commit(HandleOperatorNext(agenda, Machine), "operatorNext", "", 0)
    /\ UNCHANGED << agenda, store_agenda, is_paused, running, in_flight >>

\* handle_time_warning
TimeWarning ==
    /\ running
    /\ Commit(HandleTimeWarning(agenda, Machine), "timeWarning", "", 0)
    /\ UNCHANGED << agenda, store_agenda, is_paused, running, in_flight >>

\* handle_time_expired
TimeExpired ==
    /\ running
    /\ Commit(HandleTimeExpired(agenda, Machine), "timeExpired", "", 0)
    /\ UNCHANGED << agenda, store_agenda, is_paused, running, in_flight >>

\* handle_toggle_interact
ToggleInteract ==
    /\ running
    /\ Commit(HandleToggleInteract(agenda, Machine), "toggleInteract", "", 0)
    /\ UNCHANGED << agenda, store_agenda, is_paused, running, in_flight >>

\* The points at which a pass that cancels its own task may be cut.
PassCuts(m) == IF m.must_cancel THEN Cuts ELSE { NoCut }

\* The timer task woken from its sleep.  The seconds spent paused are capped.
Tick ==
    /\ running
    /\ task = "running"
    /\ timer_paused => pause_accumulated + since_pause_start < MaxPauseSeconds
    /\ \E cut \in PassCuts(TimerRun(agenda, Machine).m) :
          LET r == TimerRun(agenda, [Machine EXCEPT !.cut = cut])
          IN  Commit(r.m, "tick", r.signal, IF r.signal = "time_warning" THEN 1 ELSE 0)
    /\ UNCHANGED << agenda, store_agenda, is_paused, running, in_flight >>

\* ConferenceHandler._handle_pause
Pause ==
    /\ running
    /\ is_paused' = TRUE
    /\ Commit(TimerPause(Machine), "pause", "", 0)
    /\ UNCHANGED << agenda, store_agenda, running, in_flight >>

\* ConferenceHandler._handle_resume
Resume ==
    /\ running
    /\ is_paused' = FALSE
    /\ Commit(TimerResume(Machine), "resume", "", 0)
    /\ UNCHANGED << agenda, store_agenda, running, in_flight >>

\* The message types of ClientMessage for which _handle_message has no branch.
UnhandledTypes == { "SPEAKER_FINISHED", "CONNECT_AI" }

\* ConferenceHandler._handle_message with a type it has no branch for: the
\* type is logged.
UnknownMessage(msg_type) ==
    /\ running
    /\ Commit(Machine, "message", msg_type, 0)
    /\ UNCHANGED << agenda, store_agenda, is_paused, running, in_flight >>

\* A turn-complete event of the provider reaching _on_turn_complete.
TurnComplete ==
    /\ running
    /\ LET r == OnTurnComplete(agenda, Machine)
       IN  Commit(r.m, IF r.forwarded THEN "responseDone" ELSE "turnComplete",
                  IF r.forwarded THEN "turn_complete" ELSE "", 0)
    /\ UNCHANGED << agenda, store_agenda, is_paused, running, in_flight >>

Next ==
    \/ \E a \in Agendas : LoadAgenda(a)
    \/ StartConference
    \/ ResponseDone
    \/ \E reason \in Reasons : AdvanceSession(reason)
    \/ OperatorNext
    \/ TimeWarning
    \/ TimeExpired
    \/ ToggleInteract
    \/ Tick

Spec == Init /\ [][Next]_vars

\* The same run when the operator loads agendas only before the start.
NextNoReload ==
    \/ \E a \in Agendas : state = "idle" /\ LoadAgenda(a)
    \/ StartConference
    \/ ResponseDone
    \/ \E reason \in Reasons : AdvanceSession(reason)
    \/ OperatorNext
    \/ TimeWarning
    \/ TimeExpired
    \/ ToggleInteract
    \/ Tick

SpecNoReload == Init /\ [][NextNoReload]_vars

\* The operations of the state machine that the observers' calls are checked
\* for.
Operations ==
    { "responseDone", "operatorNext", "toggleInteract", "timeWarning", "timeExpired" }

CallOperation(op, ag, m) ==
    IF op = "responseDone" THEN HandleResponseDone(ag, m)
    ELSE IF op = "operatorNext" THEN HandleOperatorNext(ag, m)
    ELSE IF op = "toggleInteract" THEN HandleToggleInteract(ag, m)
    ELSE IF op = "timeWarning" THEN HandleTimeWarning(ag, m)
    ELSE HandleTimeExpired(ag, m)

\* The observer calls of one operation that raise: in its first or in its
\* second fan-out, any of the callbacks after the handler's timer observer.
FailPatterns ==
    { { f } \X R : f \in 1..2, R \in SUBSET (2..MaxObservers) }

\* ConferenceStateMachine.on_state_change: one more callback, which sends
\* messages.  Room is left for the bridge's observer.
RegisterObserver ==
    /\ running
    /\ Len(Connected(Machine).observers) < MaxObservers
    /\ Commit([Machine EXCEPT !.observers = Append(@, "listener")], "register", "", 0)
    /\ UNCHANGED << agenda, store_agenda, is_paused, running, in_flight >>

\* An operation of the state machine during which the observer calls in
\* fails raise an error.
ObservedCall(op, fails) ==
    /\ running
    /\ Commit(CallOperation(op, agenda, [Machine EXCEPT !.fails = fails]), op, "", 0)
    /\ UNCHANGED << agenda, store_agenda, is_paused, running, in_flight >>

\* The state machine with several observers, some of whose calls fail.  No
\* time passes.
NextObservers ==
    \/ \E data \in Payloads : state = "idle" /\ LoadAgenda(data)
    \/ StartConference
    \/ RegisterObserver
    \/ \E op \in Operations, fails \in FailPatterns : ObservedCall(op, fails)

SpecObservers == Init /\ [][NextObservers]_vars

\* The bridge's observer awaits the provider connection and the browser
\* socket; a fan-out that calls it is suspended there, and the other tasks
\* run before it returns.
Suspends(m) ==
    /\ m.notified # << >>
    /\ \E i \in 1..Len(m.observers) : m.observers[i] = "bridge"

\* A task that is not inside an operation starts one, which took the
\* machine to m when its first fan-out reached the bridge's observer; route
\* says that the operation calls the router after the fan-out, phase is the
\* phase the fan-out hands over, which the observer sends in STATE_UPDATE
\* once its first await (update_instructions) has returned.
Begin(t, m, op, arg, sent, route) ==
    /\ in_flight[t] = NoCall
    /\ IF Suspends(m)
       THEN /\ Commit(m, op, arg, sent)
            /\ in_flight' = [in_flight EXCEPT
                                ![t] = [op |-> op, route |-> route,
                                        phase |-> m.notified[Len(m.notified)]]]
       ELSE /\ Commit(IF route THEN RouteTransition(agenda, m) ELSE m, op, arg, sent)
            /\ in_flight' = in_flight

\* START_CONFERENCE handled by the receive loop.
AsyncStartConference ==
    /\ running
    /\ LET m == IF agenda = NoAgenda THEN Machine
                ELSE HandleStart(agenda, Connected(Machine))
       IN  /\ Begin("operator", IF m.raised THEN TimerStop(m) ELSE m, "start", "",
                    0, FALSE)
           /\ running' = ~m.raised
    /\ UNCHANGED << agenda, store_agenda, is_paused >>

\* NEXT_SESSION handled by the receive loop.
AsyncOperatorNext ==
    /\ running
    /\ Begin("operator", HandleOperatorNext(agenda, Machine), "operatorNext", "",
             0, FALSE)
    /\ UNCHANGED << agenda, store_agenda, is_paused, running >>

\* TOGGLE_INTERACT handled by the receive loop.
AsyncToggleInteract ==
    /\ running
    /\ Begin("operator", HandleToggleInteract(agenda, Machine), "toggleInteract",
             "", 0, FALSE)
    /\ UNCHANGED << agenda, store_agenda, is_paused, running >>

\* A turn-complete event handled by the listen loop.
AsyncTurnComplete ==
    /\ running
    /\ IF state \in SILENT_STATES
       THEN Begin("provider", Machine, "turnComplete", "", 0, FALSE)
       ELSE LET m == ResponseDoneTransition(agenda, Machine)
            IN  Begin("provider", m, "responseDone", "turn_complete", 0,
                      state \in RoutedPhases)
    /\ UNCHANGED << agenda, store_agenda, is_paused, running >>

\* A pass of the timer loop.
AsyncTick ==
    /\ running
    /\ task = "running"
    /\ \E cut \in PassCuts(TimerRun(agenda, Machine).m) :
          LET r == TimerRun(agenda, [Machine EXCEPT !.cut = cut])
          IN  Begin("timer", r.m, "tick", r.signal,
                    IF r.signal = "time_warning" THEN 1 ELSE 0, FALSE)
    /\ UNCHANGED << agenda, store_agenda, is_paused, running >>

\* The suspended fan-out of task t ends (the observer returned or raised, or
\* the cancellation of the task was delivered) and the operation goes on: the
\* router runs if the operation calls it, and its fan-out is suspended in
\* turn.
Return(t) ==
    /\ running
    /\ in_flight[t] # NoCall
    /\ LET m == IF in_flight[t].route THEN RouteTransition(agenda, Machine)
                ELSE Machine
       IN  /\ Commit(m, in_flight[t].op, "returned", 0)
           /\ in_flight' = [in_flight EXCEPT
                               ![t] = IF Suspends(m)
                                      THEN [op |-> in_flight[t].op, route |-> FALSE,
                                            phase |-> m.notified[Len(m.notified)]]
                                      ELSE NoCall]
    /\ UNCHANGED << agenda, store_agenda, is_paused, running >>

\* The run with its three tasks taking turns at the suspension points of the
\* fan-outs.  The receive loop handles one message at a time.
NextAsync ==
    \/ \E data \in Payloads :
          state = "idle" /\ in_flight["operator"] = NoCall /\ LoadAgenda(data)
    \/ AsyncStartConference
    \/ AsyncOperatorNext
    \/ AsyncToggleInteract
    \/ AsyncTurnComplete
    \/ AsyncTick
    \/ \E t \in Tasks : Return(t)

SpecAsync == Init /\ [][NextAsync]_vars

\* The timer task woken from its sleep, up to the tick observer
\* _on_timer_tick, which awaits the browser socket with the TIMER_TICK
\* message: the pass is suspended there.
TickBegin ==
    /\ running
    /\ task = "running"
    /\ in_flight["timer"] = NoCall
    /\ timer_paused => pause_accumulated + since_pause_start < MaxPauseSeconds
    /\ LET r == TimerPassToObservers(Machine)
       IN  /\ Commit(r.m, IF r.notified THEN "tickNotify" ELSE "tick", "", 0)
           /\ in_flight' = IF r.notified
                           THEN [in_flight EXCEPT
                                   !["timer"] = [op |-> "tick", route |-> FALSE,
                                                 elapsed |-> r.elapsed,
                                                 replaced |-> FALSE,
                                                 cancelled |-> FALSE]]
                           ELSE in_flight
    /\ UNCHANGED << agenda, store_agenda, is_paused, running >>

\* The tick observer returns and the pass goes on to its warning and expiry
\* checks.  A loop cancelled during the suspension does not get here.
TickEnd ==
    /\ running
    /\ in_flight["timer"].op = "tick"
    /\ ~in_flight["timer"].cancelled
    /\ \E cut \in PassCuts(TimerPassSignals(agenda, Machine,
                                            in_flight["timer"].elapsed).m) :
          LET r == TimerPassSignals(agenda, [Machine EXCEPT !.cut = cut],
                                    in_flight["timer"].elapsed)
          IN  Commit(r.m, "tickSignals", r.signal,
                     IF r.signal = "time_warning" THEN 1 ELSE 0)
    /\ in_flight' = [in_flight EXCEPT !["timer"] = NoCall]
    /\ UNCHANGED << agenda, store_agenda, is_paused, running >>

\* The wired run with the passes of the timer loop suspended in the tick
\* observer.  The receive loop handles PAUSE and RESUME during the
\* suspension; the signals that stop or restart the timer are handled
\* between two passes.
NextTickObserver ==
    \/ \E a \in Agendas : state = "idle" /\ LoadAgenda(a)
    \/ in_flight["timer"] = NoCall /\ StartConference
    \/ in_flight["timer"] = NoCall /\ OperatorNext
    \/ in_flight["timer"] = NoCall /\ TurnComplete
    \/ Pause
    \/ Resume
    \/ TickBegin
    \/ TickEnd

SpecTickObserver == Init /\ [][NextTickObserver]_vars

\* The run as the handler wires it: the operator's commands, the provider's
\* turn-complete events and advance_to_next_session tool calls, the timer.
\* The operator loads agendas only before the start.
NextWired ==
    \/ \E data \in Payloads : state = "idle" /\ LoadAgenda(data)
    \/ StartConference
    \/ Pause
    \/ Resume
    \/ OperatorNext
    \/ ToggleInteract
    \/ \E msg_type \in UnhandledTypes : UnknownMessage(msg_type)
    \/ TurnComplete
    \/ \E reason \in Reasons : AdvanceSession(reason)
    \/ Tick

SpecWired == Init /\ [][NextWired]_vars

\* The wired run with LOAD_AGENDA messages in every phase, without PAUSE,
\* RESUME and messages of unknown types.
NextWiredReload ==
    \/ \E data \in Payloads : LoadAgenda(data)
    \/ StartConference
    \/ OperatorNext
    \/ ToggleInteract
    \/ TurnComplete
    \/ \E reason \in Reasons : AdvanceSession(reason)
    \/ Tick

SpecWiredReload == Init /\ [][NextWiredReload]_vars

\* The contexts the projections are applied to: an agenda or none, a session
\* index in the agenda, at its end or past it, an elapsed time.
InitQueries ==
    /\ state = "idle"
    /\ agenda \in QueryAgendas \cup { NoAgenda }
    /\ store_agenda = agenda
    /\ current_session_index \in 0..MaxSessions
    /\ elapsed_seconds \in QueryElapsed
    /\ time_warning_issued = FALSE
    /\ is_paused = FALSE
    /\ since_session_start = NoTime
    /\ task = "none"
    /\ total_seconds = 0
    /\ timer_paused = FALSE
    /\ pause_accumulated = 0
    /\ since_pause_start = NoTime
    /\ running = TRUE
    /\ observers = << "timer" >>
    /\ in_flight = [t \in Tasks |-> NoCall]
    /\ last = [op |-> "init", arg |-> "", from |-> "idle",
               notified |-> << >>, routed |-> 0, raised |-> FALSE,
               calls |-> << >>, issued |-> << >>]
    /\ warn_signals = 0
    /\ expiry_signals = 0
    /\ script_pos = 0

\* ToolHandler._get_session_info: the tool call get_session_info(which).
GetSessionInfo(which) ==
    /\ running
    /\ last' = [op |-> "sessionInfo", arg |-> which, from |-> state,
                notified |-> << >>, routed |-> 0, raised |-> FALSE,
                calls |-> << >>, issued |-> << >>,
                result |-> get_session_info(agenda, current_session_index, which)]
    /\ UNCHANGED << state, agenda, store_agenda, current_session_index,
                    elapsed_seconds, time_warning_issued, is_paused,
                    since_session_start, task, total_seconds, timer_paused,
                    pause_accumulated, since_pause_start, running, observers,
                    in_flight, warn_signals, expiry_signals, script_pos >>

\* ToolHandler._check_time_remaining: the tool call check_time_remaining().
CheckTimeRemaining ==
    /\ running
    /\ last' = [op |-> "timeRemaining", arg |-> "", from |-> state,
                notified |-> << >>, routed |-> 0, raised |-> FALSE,
                calls |-> << >>, issued |-> << >>,
                result |-> get_time_remaining(agenda, current_session_index,
                                              elapsed_seconds)]
    /\ UNCHANGED << state, agenda, store_agenda, current_session_index,
                    elapsed_seconds, time_warning_issued, is_paused,
                    since_session_start, task, total_seconds, timer_paused,
                    pause_accumulated, since_pause_start, running, observers,
                    in_flight, warn_signals, expiry_signals, script_pos >>

\* The projections applied to a context.
NextQueries ==
    \/ \E which \in { "current", "next" } : GetSessionInfo(which)
    \/ CheckTimeRemaining

SpecQueries == InitQueries /\ [][NextQueries]_vars

\* A run whose agenda carries speakers, panelists and notes, or a run
\* without an agenda: the state after the LOAD_AGENDA messages, if any.
InitTools ==
    /\ state = "idle"
    /\ agenda \in { PANEL_AGENDA, NoAgenda }
    /\ store_agenda = agenda
    /\ current_session_index = 0
    /\ elapsed_seconds = 0
    /\ time_warning_issued = FALSE
    /\ is_paused = FALSE
    /\ since_session_start = NoTime
    /\ task = "none"
    /\ total_seconds = 0
    /\ timer_paused = FALSE
    /\ pause_accumulated = 0
    /\ since_pause_start = NoTime
    /\ running = TRUE
    /\ observers = << "timer" >>
    /\ in_flight = [t \in Tasks |-> NoCall]
    /\ last = [op |-> "init", arg |-> "", from |-> "idle",
               notified |-> << >>, routed |-> 0, raised |-> FALSE,
               calls |-> << >>, issued |-> << >>]
    /\ warn_signals = 0
    /\ expiry_signals = 0
    /\ script_pos = 0

\* RealtimeEventHandler._on_tool_call for one function call of the provider:
\* handle_function_call, whose result is sent back.
ToolCall(name, arguments) ==
    /\ running
    /\ LET r == handle_function_call(agenda, Machine, name, arguments)
           m == r.m
       IN  /\ state' = m.state
           /\ current_session_index' = m.index
           /\ elapsed_seconds' = m.elapsed
           /\ time_warning_issued' = m.warned
           /\ since_session_start' = m.since_start
           /\ task' = m.task
           /\ total_seconds' = m.total
           /\ timer_paused' = m.paused
           /\ pause_accumulated' = m.pause_acc
           /\ since_pause_start' = m.since_pause
           /\ observers' = m.observers
           /\ last' = [op |-> "toolCall", arg |-> name, from |-> state,
                       notified |-> m.notified, routed |-> m.routed,
                       raised |-> m.raised, calls |-> m.calls,
                       issued |-> m.issued, arguments |-> arguments,
                       result |-> r.result]
           /\ warn_signals' = IF m.index # current_session_index THEN 0
                              ELSE warn_signals
           /\ expiry_signals' = IF m.index # current_session_index THEN 0
                                ELSE expiry_signals
           /\ script_pos' = -1
    /\ UNCHANGED << agenda, store_agenda, is_paused, running, in_flight >>

\* The names the provider calls that are no tool.
UnknownNames == { "unknown_func", "" }

\* The wired run with the provider's tool calls.
NextTools ==
    \/ StartConference
    \/ TurnComplete
    \/ Tick
    \/ \E reason \in Reasons :
          ToolCall("advance_to_next_session", [reason |-> reason])
    \/ \E name \in ToolNames \cup UnknownNames : ToolCall(name, NoArguments)
    \/ \E which \in { "current", "next" } :
          ToolCall("get_session_info", [which |-> which])
    \/ \E minutes \in { 1, 5 } :
          ToolCall("announce_time_warning", [minutes_remaining |-> minutes])

SpecTools == InitTools /\ [][NextTools]_vars

\* The operations the other tasks call while a pass of the timer loop is
\* suspended in the tick observer.
PassOperations == { "operatorNext", "toggleInteract", "responseDone" }

\* The handler call stopped or started the timer: _task is no longer the
\* loop that had it before.
Replaces(m) ==
    \E k \in 1..Len(m.notified) : m.notified[k] \in timed_states \cup stop_states

\* An operation of the receive loop or of the listen loop handled while a
\* pass of the timer loop is suspended in the tick observer: a stop() or
\* start() in it cancels the suspended loop.
WhilePassSuspended(op) ==
    /\ running
    /\ in_flight["timer"].op = "tick"
    /\ op = "responseDone" => state \notin SILENT_STATES
    /\ LET m == CallOperation(op, agenda, Machine)
       IN  /\ Commit(m, op, "", 0)
           /\ in_flight' = [in_flight EXCEPT
                               !["timer"].replaced = @ \/ Replaces(m),
                               !["timer"].cancelled = @ \/ m.cancelled]
    /\ UNCHANGED << agenda, store_agenda, is_paused, running >>

\* The suspended pass of a cancelled loop is resumed with CancelledError,
\* which ends the loop: timer.py's outermost handler.
PassCancelled ==
    /\ running
    /\ in_flight["timer"].op = "tick"
    /\ in_flight["timer"].cancelled
    /\ Commit(Machine, "tickCancelled", "", 0)
    /\ in_flight' = [in_flight EXCEPT !["timer"] = NoCall]
    /\ UNCHANGED << agenda, store_agenda, is_paused, running >>

\* The wired run with the passes of the timer loop suspended in the tick
\* observer while the receive loop and the listen loop handle the signals
\* that stop or restart the timer.  The suspension ends before the next
\* pass is due.
NextLoops ==
    \/ \E a \in Agendas : state = "idle" /\ LoadAgenda(a)
    \/ in_flight["timer"] = NoCall /\ StartConference
    \/ in_flight["timer"] = NoCall /\ OperatorNext
    \/ in_flight["timer"] = NoCall /\ ToggleInteract
    \/ in_flight["timer"] = NoCall /\ TurnComplete
    \/ \E op \in PassOperations : WhilePassSuspended(op)
    \/ TickBegin
    \/ TickEnd
    \/ PassCancelled

SpecLoops == Init /\ [][NextLoops]_vars

\* The provider has been asked for a turn and has not completed it.
Turn == [op |-> "turn", route |-> FALSE]

\* The provider's turn-complete event has reached the listen loop.
TurnDone == [op |-> "turnComplete", route |-> FALSE]

\* The sleep of the timer loop has ended and its pass is due.
Woken == [op |-> "pass", route |-> FALSE]

\* The handler call sent the provider a clientContent message with
\* turnComplete set, to which it answers with a turn: update_instructions
\* or trigger_speech.
ProviderAsked(m) ==
    \E j \in 1..Len(m.issued) :
       m.issued[j][3] \in { "update_instructions", "trigger_speech" }

\* START_CONFERENCE, sent once by the operator.
LiveStartConference ==
    /\ running
    /\ state = "idle"
    /\ LET m == IF agenda = NoAgenda THEN Machine
                ELSE HandleStart(agenda, Connected(Machine))
       IN  /\ Commit(m, "start", "", 0)
           /\ in_flight' = [in_flight EXCEPT
                               !["provider"] = IF ProviderAsked(m) THEN Turn ELSE @]
    /\ UNCHANGED << agenda, store_agenda, is_paused, running >>

\* The provider completes the turn it was asked for: its turn-complete
\* event arrives.
TurnCompletes ==
    /\ running
    /\ in_flight["provider"] = Turn
    /\ in_flight["timer"] = NoCall
    /\ in_flight' = [in_flight EXCEPT !["provider"] = TurnDone]
    /\ UNCHANGED << state, agenda, store_agenda, current_session_index,
                    elapsed_seconds, time_warning_issued, is_paused,
                    since_session_start, task, total_seconds, timer_paused,
                    pause_accumulated, since_pause_start, running, observers,
                    last, warn_signals, expiry_signals, script_pos >>

\* The listen loop handles the turn-complete event.
LiveTurnComplete ==
    /\ running
    /\ in_flight["provider"] = TurnDone
    /\ LET r == OnTurnComplete(agenda, Machine)
       IN  /\ Commit(r.m, IF r.forwarded THEN "responseDone" ELSE "turnComplete",
                     IF r.forwarded THEN "turn_complete" ELSE "", 0)
           /\ in_flight' = [in_flight EXCEPT
                               !["provider"] = IF ProviderAsked(r.m) THEN Turn
                                               ELSE NoCall]
    /\ UNCHANGED << agenda, store_agenda, is_paused, running >>

\* The one-second sleep of the timer loop ends.
TimerWakes ==
    /\ running
    /\ task = "running"
    /\ in_flight["timer"] = NoCall
    /\ in_flight["provider"] # TurnDone
    /\ in_flight' = [in_flight EXCEPT !["timer"] = Woken]
    /\ UNCHANGED << state, agenda, store_agenda, current_session_index,
                    elapsed_seconds, time_warning_issued, is_paused,
                    since_session_start, task, total_seconds, timer_paused,
                    pause_accumulated, since_pause_start, running, observers,
                    last, warn_signals, expiry_signals, script_pos >>

\* The pass of the woken timer loop.
LiveTick ==
    /\ running
    /\ in_flight["timer"] = Woken
    /\ \E cut \in PassCuts(TimerRun(agenda, Machine).m) :
          LET r == TimerRun(agenda, [Machine EXCEPT !.cut = cut])
          IN  /\ Commit(r.m, "tick", r.signal,
                        IF r.signal = "time_warning" THEN 1 ELSE 0)
              /\ in_flight' = [in_flight EXCEPT
                                  !["timer"] = NoCall,
                                  !["provider"] = IF ProviderAsked(r.m) THEN Turn
                                                  ELSE @]
    /\ UNCHANGED << agenda, store_agenda, is_paused, running >>

\* The run without operator commands after the start: the provider's
\* turn-complete events and the timer.  An event that has arrived is
\* handled before the next one arrives.
NextLive ==
    \/ \E a \in Agendas : state = "idle" /\ LoadAgenda(a)
    \/ LiveStartConference
    \/ TurnCompletes
    \/ LiveTurnComplete
    \/ TimerWakes
    \/ LiveTick

\* The provider completes every turn it is asked for, the sleep of a running
\* timer loop ends, and the task an event has woken runs: the event loop
\* leaves no ready task waiting for ever.
SpecLive ==
    /\ Init
    /\ [][NextLive]_vars
    /\ WF_vars(TurnCompletes)
    /\ WF_vars(TimerWakes)
    /\ []<>(in_flight["provider"] # TurnDone)
    /\ []<>(in_flight["timer"] # Woken)

-----------------------------------------------------------------------------
(* Properties *)

SpeakerPhases == { "speaker_active", "interacting", "time_warning" }

RouterDestinations == { "introducing_speaker", "break_announcement", "closing" }

\* C1: on the agenda opening, keynote, break, closing, the calls start,
\* responseDone, responseDone, advanceSession(speaker_finished), responseDone,
\* responseDone, timeExpired, responseDone, responseDone leave the machine,
\* one after the other, in opening (index 0), introducing_speaker (1),
\* speaker_active, thanking_speaker, break_announcement (2), break_active,
\* break_ending, closing (3) and ended.
ScriptPhases ==
    << "opening", "introducing_speaker", "speaker_active", "thanking_speaker",
       "break_announcement", "break_active", "break_ending", "closing", "ended" >>

ScriptIndexes == << 0, 1, 1, 1, 2, 2, 2, 3, 3 >>

C1_FullFlow ==
    (agenda = make_test_agenda /\ script_pos >= 1)
        => /\ state = ScriptPhases[script_pos]
           /\ current_session_index = ScriptIndexes[script_pos]

C1_Witness ==
    /\ agenda = make_test_agenda
    /\ script_pos = Len(Script)
    /\ state = "ended"
    /\ last.op = "responseDone"

\* C2: operatorNext called in break_active or opening passes through
\* transitioning and returns with the phase at the router's destination,
\* never at transitioning.
C2_OperatorNextRouted ==
    (last.op = "operatorNext" /\ last.from \in { "break_active", "opening" })
        => /\ last.notified # << >>
           /\ last.notified[1] = "transitioning"
           /\ state \in RouterDestinations

\* C3: an operation called in a phase for which it has no entry leaves the
\* phase as it was and hands nothing to the observers.
OperationPhases(op) ==
    IF op = "responseDone"
    THEN { "opening", "introducing_speaker", "time_warning", "thanking_speaker",
           "break_announcement", "break_ending", "closing" }
    ELSE IF op = "advanceSession" THEN SpeakerPhases \cup { "opening" }
    ELSE IF op = "operatorNext" THEN SpeakerPhases \cup { "break_active", "opening" }
    ELSE IF op = "timeWarning" THEN { "speaker_active", "interacting" }
    ELSE IF op = "timeExpired" THEN SpeakerPhases \cup { "break_active" }
    ELSE IF op = "toggleInteract" THEN { "speaker_active", "interacting" }
    ELSE ConferenceState

C3_NoEntryNoChange ==
    (last.op \in { "responseDone", "advanceSession", "operatorNext", "timeWarning",
                   "timeExpired", "toggleInteract" }
     /\ last.from \notin OperationPhases(last.op))
        => /\ state = last.from
           /\ last.notified = << >>

C3_Witness ==
    /\ last.op = "operatorNext"
    /\ last.from = "thanking_speaker"
    /\ state = "thanking_speaker"

\* C4: a run of the router with no next session ends in closing with the
\* index it found; with a next session it ends in the phase that the type
\* of the new current session alone decides: break_announcement for a break,
\* closing for a closing session, introducing_speaker for every other type.
\* (responseDone from break_ending has advanced the index before the router
\* runs.)
RouterEntryIndex ==
    IF last'.op = "responseDone" /\ state = "break_ending"
    THEN current_session_index + 1
    ELSE current_session_index

DestinationOfType(t) ==
    IF t = "break" THEN "break_announcement"
    ELSE IF t = "closing" THEN "closing"
    ELSE "introducing_speaker"

C4_RouterDestination ==
    [][ last'.routed = 1 =>
          IF next_session(agenda, RouterEntryIndex) = NoSession
          THEN /\ state' = "closing"
               /\ current_session_index' = RouterEntryIndex
          ELSE /\ current_session_index' = RouterEntryIndex + 1
               /\ state' = DestinationOfType(
                              current_session(agenda, current_session_index').type)
      ]_vars

C4_Witness ==
    /\ last.routed = 1
    /\ state = "introducing_speaker"
    /\ current_session(agenda, current_session_index).type = "opening"

\* C5: a run of the router that finds a next session advances the index by
\* exactly one and leaves elapsed seconds at 0 and the warning flag false,
\* and the router runs once for every entry into transitioning.
TransitioningEntries(notified) ==
    Cardinality({ i \in 1..Len(notified) : notified[i] = "transitioning" })

C5_RouterOncePerEntry ==
    [][ /\ (last'.routed = 1 /\ next_session(agenda, RouterEntryIndex) # NoSession)
            => /\ current_session_index' = RouterEntryIndex + 1
               /\ elapsed_seconds' = 0
               /\ ~time_warning_issued'
        /\ last'.routed = TransitioningEntries(last'.notified)
      ]_vars

\* C6: in every phase but idle and ended the session index is a position of
\* the agenda, whatever valid agenda was loaded.
C6_IndexInAgenda ==
    state \notin { "idle", "ended" }
        => (0 <= current_session_index /\ current_session_index < Len(agenda))

\* C7: no operation advances the session index by more than one, so no
\* session of the agenda is passed over.
C7_NoSessionSkipped ==
    [][ current_session_index' <= current_session_index + 1 ]_vars

\* C8: advanceSession from speaker_active, interacting or time_warning ends
\* in thanking_speaker with the index unchanged, from opening in the
\* router's destination, and every reason gives the same phase.
C8_AdvanceSession ==
    [][ last'.op = "advanceSession" =>
          /\ state \in SpeakerPhases
               => (state' = "thanking_speaker"
                   /\ current_session_index' = current_session_index)
          /\ state = "opening"
               => (state' \in RouterDestinations /\ last'.routed = 1)
          /\ \A reason \in Reasons :
               HandleAdvanceSession(agenda, Machine, reason).state = state'
      ]_vars

C8_Witness ==
    /\ last.op = "advanceSession"
    /\ last.arg = "time_expired"
    /\ last.from = "interacting"
    /\ state = "thanking_speaker"

\* C9: a time warning in speaker_active or interacting leads to time_warning
\* with the warning flag set; responseDone then leads back to speaker_active
\* with the flag still set; the flag is cleared only by a step that changes
\* the session index.
WarningCall ==
    last'.op = "timeWarning" \/ (last'.op = "tick" /\ last'.arg = "time_warning")

C9_WarningFlagKept ==
    [][ /\ (WarningCall /\ state \in { "speaker_active", "interacting" })
            => (state' = "time_warning" /\ time_warning_issued')
        /\ (last'.op = "responseDone" /\ state = "time_warning")
            => (state' = "speaker_active" /\ time_warning_issued')
        /\ (time_warning_issued /\ ~time_warning_issued')
            => current_session_index' # current_session_index
      ]_vars

C9_Witness ==
    /\ last.op = "responseDone"
    /\ last.from = "time_warning"
    /\ state = "speaker_active"
    /\ time_warning_issued

\* C10: within one session the timer sends the time-warning signal to the
\* state machine at most once, in whichever timed phase the machine is.
C10_OneWarningSignal == warn_signals <= 1

\* C11: a pass of the timer loop sends the time-expired signal exactly when
\* the timer is not paused and no time remains; the signal is sent at most
\* once while the session index stays, and once it is sent no timer loop
\* runs for that session, so no tick, warning or expiry follows.
C11_ExpiryOnce ==
    /\ [](/\ expiry_signals <= 1
          /\ expiry_signals = 1 => task # "running")
    /\ [][ last'.op = "tick" =>
             ((last'.arg = "time_expired")
                <=> (/\ ~timer_paused
                     /\ since_session_start # NoTime
                     /\ since_session_start + TickSeconds - pause_accumulated
                            >= total_seconds))
         ]_vars

C11_Witness ==
    /\ last.op = "tick"
    /\ last.arg = "time_expired"
    /\ last.from = "speaker_active"
    /\ state = "thanking_speaker"
    /\ pause_accumulated > 0
    /\ expiry_signals = 1

\* C12: timeExpired, called directly or by the timer, leads from
\* speaker_active, interacting and time_warning to thanking_speaker and from
\* break_active to break_ending, and leaves the session index and the
\* warning flag as they were; in every other phase it hands nothing to the
\* observers and changes neither the phase nor the context nor the timer.
ExpiryCall ==
    last'.op = "timeExpired" \/ (last'.op = "tick" /\ last'.arg = "time_expired")

C12_TimeExpired ==
    [][ ExpiryCall =>
          /\ state \in SpeakerPhases => state' = "thanking_speaker"
          /\ state = "break_active" => state' = "break_ending"
          /\ state \notin SpeakerPhases \cup { "break_active" }
               => /\ state' = state
                  /\ last'.notified = << >>
                  /\ task' = IF last'.op = "tick" THEN "done" ELSE task
                  /\ last'.op = "timeExpired"
                       => UNCHANGED << elapsed_seconds, since_session_start,
                                       total_seconds, timer_paused,
                                       pause_accumulated, since_pause_start >>
          /\ current_session_index' = current_session_index
          /\ time_warning_issued' = time_warning_issued
      ]_vars

C12_Witness ==
    /\ last.op = "tick"
    /\ last.arg = "time_expired"
    /\ last.from = "break_active"
    /\ state = "break_ending"

\* C13: a turn-complete event that arrives in idle, speaker_active,
\* break_active or ended is not forwarded and changes neither the phase nor
\* the context nor the timer; in every other phase it is forwarded to
\* responseDone, whose single call leaves the phase at the destination
\* responseDone has for the phase the event arrived in.
ResponseDoneDestinations(phase) ==
    IF phase \in { "opening", "thanking_speaker", "break_ending" }
    THEN RouterDestinations
    ELSE IF phase \in { "introducing_speaker", "time_warning" } THEN { "speaker_active" }
    ELSE IF phase = "break_announcement" THEN { "break_active" }
    ELSE IF phase = "closing" THEN { "ended" }
    ELSE { phase }

C13_TurnCompleteGate ==
    [][ (last'.op = "turnComplete" \/ last'.arg = "turn_complete") =>
          IF state \in { "idle", "speaker_active", "break_active", "ended" }
          THEN /\ last'.op = "turnComplete"
               /\ last'.notified = << >>
               /\ UNCHANGED << state, agenda, current_session_index,
                               elapsed_seconds, time_warning_issued, is_paused,
                               since_session_start, task, total_seconds >>
          ELSE /\ last'.op = "responseDone"
               /\ last'.routed <= 1
               /\ state' \in ResponseDoneDestinations(state)
      ]_vars

C13_Witness ==
    /\ last.op = "turnComplete"
    /\ last.from = "speaker_active"
    /\ state = "speaker_active"
    /\ task = "running"

\* C14: between two handled signals of a run, a timer loop is active exactly
\* when the phase is speaker_active, interacting, time_warning or
\* break_active.
C14_TimerLoopIffTimedPhase ==
    running =>
        ((task = "running")
            <=> (state \in { "speaker_active", "interacting", "time_warning",
                             "break_active" }))

\* C17: while the session index stays and the run is not paused, no step
\* makes the context's elapsed seconds smaller.
C17_ElapsedNeverDecreases ==
    [][ (current_session_index' = current_session_index
         /\ ~is_paused /\ ~is_paused')
            => elapsed_seconds' >= elapsed_seconds
      ]_vars

\* C18: the command SPEAKER_FINISHED leaves the phase, the context and the
\* timer as advanceSession("speaker_finished") leaves them: in
\* thanking_speaker when it arrives in speaker_active, interacting or
\* time_warning.
C18_SpeakerFinishedCommand ==
    [][ (last'.op = "message" /\ last'.arg = "SPEAKER_FINISHED") =>
          LET m == HandleAdvanceSession(agenda, Machine, "speaker_finished")
          IN  /\ state' = m.state
              /\ current_session_index' = m.index
              /\ elapsed_seconds' = m.elapsed
              /\ time_warning_issued' = m.warned
              /\ task' = m.task
              /\ state \in SpeakerPhases => state' = "thanking_speaker"
      ]_vars

\* C19: a LOAD_AGENDA whose session list is empty or has a session with a
\* missing field, a duration of 0 or less or an unknown type is answered
\* with an ERROR message and leaves the store's agenda, the context's agenda
\* and the run as they were; every other LOAD_AGENDA sets both agendas to
\* the loaded one in the same step.
Malformed(data) ==
    \/ Len(data) = 0
    \/ \E i \in 1..Len(data) :
          \/ DOMAIN data[i] # { "type", "duration_minutes" }
          \/ data[i].duration_minutes <= 0
          \/ data[i].type \notin SessionType

C19_LoadAgenda ==
    [][ last'.op = "loadAgenda" =>
          IF Malformed(last'.payload)
          THEN /\ last'.arg = "error"
               /\ running'
               /\ UNCHANGED << agenda, store_agenda, state, current_session_index >>
          ELSE /\ last'.arg = ""
               /\ agenda' = last'.payload
               /\ store_agenda' = last'.payload
      ]_vars

C19_Witness ==
    /\ last.op = "loadAgenda"
    /\ last.arg = "error"
    /\ last.payload = << [type |-> "talk", duration_minutes |-> 0] >>
    /\ state = "speaker_active"
    /\ agenda = make_test_agenda
    /\ store_agenda = make_test_agenda
    /\ running

\* C20: once the phase has left idle, no step changes the agenda of the
\* context.
C20_AgendaSetOnce ==
    [][ state # "idle" => agenda' = agenda ]_vars

\* C16: in every fan-out of an operation each registered observer is called,
\* in registration order, with the new phase, whichever of the calls raise
\* an error; and the operation ends in the phase, the session index, the
\* router runs and the timer it ends in when no call raises.
C16_FanOutBestEffort ==
    [][ last'.op \in Operations =>
          LET calls == last'.calls
              notified == last'.notified
              n == Len(observers)
              quiet == CallOperation(last'.op, agenda, Machine)
          IN  /\ Len(calls) = Len(notified) * n
              /\ \A k \in 1..Len(notified) : \A i \in 1..n :
                    /\ calls[(k - 1) * n + i][1] = i
                    /\ calls[(k - 1) * n + i][2] = notified[k]
              /\ state' = quiet.state
              /\ current_session_index' = quiet.index
              /\ last'.routed = quiet.routed
              /\ task' = quiet.task
      ]_vars

C16_Witness ==
    /\ last.op = "responseDone"
    /\ last.from = "opening"
    /\ Len(observers) = 3
    /\ Len(last.calls) = 6
    /\ last.calls[2] = << 2, "transitioning", "raised" >>
    /\ last.calls[3] = << 3, "transitioning", "ok" >>
    /\ last.routed = 1
    /\ state = "introducing_speaker"

\* C15: at most one operation of the state machine is under way in a run: no
\* task starts an operation while the fan-out or the routing of another
\* task's operation is not yet finished.
C15_OneTriggerInFlight ==
    Cardinality({ t \in Tasks : in_flight[t] # NoCall }) <= 1

\* C21: start leads from idle to opening; called in any other phase, ended
\* included, it raises an error and leaves the phase and the context as they
\* were.  No step leads back to idle, and opening is entered from idle only,
\* so a run enters opening at most once.
C21_StartOnlyFromIdle ==
    [][ /\ (last'.op = "start" /\ agenda # NoAgenda) =>
              IF state = "idle"
              THEN state' = "opening" /\ ~last'.raised
              ELSE /\ last'.raised
                   /\ last'.notified = << >>
                   /\ UNCHANGED << state, agenda, current_session_index,
                                   elapsed_seconds, time_warning_issued,
                                   is_paused, since_session_start >>
        /\ state # "idle" => state' # "idle"
        /\ (state # "opening" /\ state' = "opening") => state = "idle"
      ]_vars

C21_Witness ==
    /\ last.op = "start"
    /\ last.from = "ended"
    /\ last.raised
    /\ state = "ended"
    /\ agenda # NoAgenda

\* C22: toggleInteract leads from speaker_active to interacting and from
\* interacting to speaker_active with the session index and the warning flag
\* as they were, so that a second toggle right after it restores the phase;
\* in every other phase it changes neither the phase nor the context nor the
\* timer and hands nothing to the observers.
C22_ToggleInteract ==
    [][ last'.op = "toggleInteract" =>
          LET twice == HandleToggleInteract(agenda,
                          HandleToggleInteract(agenda, Machine))
          IN  /\ state = "speaker_active" => state' = "interacting"
              /\ state = "interacting" => state' = "speaker_active"
              /\ current_session_index' = current_session_index
              /\ time_warning_issued' = time_warning_issued
              /\ twice.state = state
              /\ twice.index = current_session_index
              /\ twice.warned = time_warning_issued
              /\ state \notin { "speaker_active", "interacting" }
                   => /\ last'.notified = << >>
                      /\ UNCHANGED << state, elapsed_seconds, since_session_start,
                                      task, total_seconds, timer_paused,
                                      pause_accumulated, since_pause_start >>
      ]_vars

C22_Witness ==
    /\ last.op = "toggleInteract"
    /\ last.from = "interacting"
    /\ state = "speaker_active"
    /\ time_warning_issued

\* C23: operatorNext leads from speaker_active, interacting and time_warning
\* to thanking_speaker with the session index as it was; in every phase
\* other than these, break_active and opening, it raises no error to its
\* caller, the run goes on, and the phase, the context and the timer are as
\* they were.
C23_OperatorNext ==
    [][ last'.op = "operatorNext" =>
          /\ ~last'.raised
          /\ running'
          /\ state \in SpeakerPhases
               => /\ state' = "thanking_speaker"
                  /\ current_session_index' = current_session_index
          /\ state \notin SpeakerPhases \cup { "break_active", "opening" }
               => /\ last'.notified = << >>
                  /\ UNCHANGED << state, agenda, current_session_index,
                                  elapsed_seconds, time_warning_issued, is_paused,
                                  since_session_start, task, total_seconds,
                                  timer_paused, pause_accumulated,
                                  since_pause_start >>
      ]_vars

C23_Witness ==
    /\ last.op = "operatorNext"
    /\ last.from = "closing"
    /\ state = "closing"
    /\ ~last.raised
    /\ running

\* C24: the tool call get_session_info answers for "current" with the
\* session at the context's index and for "next" with the session one
\* position later: its position, id, type, title and duration and, where the
\* session has them, its speaker's fields (an unset bio as the empty
\* string), its panelists, notes and description, each as loaded.  It
\* answers with the error result exactly when that position is outside the
\* agenda, and it leaves the context as it was.
QueryPosition(which) ==
    IF which = "next" THEN current_session_index + 1 ELSE current_session_index

InAgenda(pos) == agenda # NoAgenda /\ 0 <= pos /\ pos < Len(agenda)

C25_TimeRemainingExact ==
    [][ last'.op = "timeRemaining" =>
          LET r == last'.result
              e == elapsed_seconds
          IN  IF ~InAgenda(current_session_index)
              THEN "error" \in DOMAIN r
              ELSE LET total == SecondsPerMinute
                                  * agenda[current_session_index + 1].duration_minutes
                   IN  /\ r.total_seconds = total
                       /\ r.elapsed_seconds = e
                       /\ r.remaining_seconds = (IF total - e > 0 THEN total - e ELSE 0)
                       /\ r.progress_percent * total
                            = 1000 * (IF e < total THEN e ELSE total)
      ]_vars

\* C25, amended: as above, with the progress percent being
\* min(100, 100*e/(60*d)) rounded to one decimal: the returned number of
\* tenths is within half a tenth of the exact value.
C25_TimeRemainingRounded ==
    [][ last'.op = "timeRemaining" =>
          LET r == last'.result
              e == elapsed_seconds
          IN  IF ~InAgenda(current_session_index)
              THEN "error" \in DOMAIN r
              ELSE LET total == SecondsPerMinute
                                  * agenda[current_session_index + 1].duration_minutes
                       exact == 1000 * (IF e < total THEN e ELSE total)
                       given == r.progress_percent * total
                   IN  /\ r.total_seconds = total
                       /\ r.elapsed_seconds = e
                       /\ r.remaining_seconds = (IF total - e > 0 THEN total - e ELSE 0)
                       /\ 2 * (given - exact) <= total
                       /\ 2 * (exact - given) <= total
      ]_vars

C25_Witness ==
    /\ last.op = "timeRemaining"
    /\ agenda = PANEL_AGENDA
    /\ current_session_index = 0
    /\ elapsed_seconds = 1
    /\ last.result.total_seconds = 60
    /\ last.result.remaining_seconds = 59
    /\ last.result.progress_percent = 17

\* C26: PAUSE while the timer is paused leaves the timer as it is, the
\* pause-start included; RESUME while it is not paused leaves it as it is;
\* PAUSE on a timer that is not paused takes the pause-start and leaves the
\* accumulator, and the RESUME that follows adds the time since that
\* pause-start to the accumulator, once, and clears the pause-start.
C26_PauseResumeIdempotent ==
    [][ /\ last'.op = "pause" =>
              IF timer_paused
              THEN UNCHANGED << timer_paused, since_pause_start, pause_accumulated >>
              ELSE /\ timer_paused'
                   /\ since_pause_start' = 0
                   /\ pause_accumulated' = pause_accumulated
        /\ last'.op = "resume" =>
              IF timer_paused
              THEN /\ ~timer_paused'
                   /\ pause_accumulated' = pause_accumulated + since_pause_start
                   /\ since_pause_start' = NoTime
              ELSE UNCHANGED << timer_paused, since_pause_start, pause_accumulated >>
        /\ last'.op \in { "pause", "resume" } =>
              UNCHANGED << state, elapsed_seconds, since_session_start, task,
                           total_seconds >>
      ]_vars

C26_Witness ==
    /\ last.op = "resume"
    /\ ~timer_paused
    /\ pause_accumulated = MaxPauseSeconds
    /\ since_pause_start = NoTime
    /\ task = "running"

\* C27: while the timer is paused, a pass of the timer loop leaves elapsed
\* seconds as it is, sends no TIMER_TICK and no time-warning or time-expired
\* signal and changes no phase, also when the PAUSE was handled while the
\* pass was suspended in a tick observer.
C27_PausedTimerSilent ==
    [][ (timer_paused /\ last'.op \in { "tick", "tickNotify", "tickSignals" })
            => /\ last'.op # "tickNotify"
               /\ last'.arg = ""
               /\ last'.notified = << >>
               /\ elapsed_seconds' = elapsed_seconds
               /\ state' = state
      ]_vars

\* C28: the warning flag goes from true to false only in a step that changes
\* the session index, and every step that changes the session index ends
\* with the warning flag false and elapsed seconds 0.
C28_WarningResetWithIndex ==
    [][ /\ (time_warning_issued /\ ~time_warning_issued')
            => current_session_index' # current_session_index
        /\ current_session_index' # current_session_index
            => (~time_warning_issued' /\ elapsed_seconds' = 0)
      ]_vars

C28_Witness ==
    /\ last.op = "responseDone"
    /\ last.from = "thanking_speaker"
    /\ last.routed = 1
    /\ state = "break_announcement"
    /\ current_session_index = 2
    /\ ~time_warning_issued
    /\ elapsed_seconds = 0
    /\ expiry_signals = 0
    /\ warn_signals = 0

\* C29: the phases in which the agent speaks and those in which it is
\* silent are disjoint and are the 13 phases; and for every phase handed to
\* the observers once the bridge is registered, the bridge issues the speak
\* command to the provider once if the phase is one in which the agent
\* speaks and not otherwise, and the idle status once if the phase is a
\* silent one and not otherwise.
Issued(k, command) ==
    Cardinality({ j \in 1..Len(last.issued) :
                    last.issued[j][1] = k /\ last.issued[j][3] = command })

C29_SpeakOrIdle ==
    /\ ACTIVE_SPEAKING_STATES \cap SILENT_STATES = {}
    /\ ACTIVE_SPEAKING_STATES \cup SILENT_STATES = ConferenceState
    /\ Cardinality(ConferenceState) = 13
    /\ (\E i \in 1..Len(observers) : observers[i] = "bridge") =>
          \A k \in 1..Len(last.notified) :
             /\ Issued(k, "trigger_speech")
                  = (IF last.notified[k] \in ACTIVE_SPEAKING_STATES THEN 1 ELSE 0)
             /\ Issued(k, "MODERATOR_STATUS idle")
                  = (IF last.notified[k] \in SILENT_STATES THEN 1 ELSE 0)

C31_ToolCallFrame ==
    [][ last'.op = "toolCall" =>
          /\ last'.arg \notin ToolNames => DOMAIN last'.result = { "error" }
          /\ last'.arg # "advance_to_next_session" =>
                UNCHANGED << state, agenda, current_session_index,
                             elapsed_seconds, time_warning_issued, is_paused,
                             since_session_start, task, total_seconds,
                             timer_paused, pause_accumulated, since_pause_start >>
      ]_vars

C31_Witness ==
    /\ last.op = "toolCall"
    /\ last.arg = "unknown_func"
    /\ DOMAIN last.result = { "error" }
    /\ last.from = "speaker_active"
    /\ state = "speaker_active"
    /\ elapsed_seconds > 0

\* C32: after a pass of the timer loop that sent a warning or expiry
\* signal, every observer call of its fan-outs has ended normally and the
\* bridge has issued, for every phase handed over, all its commands in
\* order: the instruction rebuild, STATE_UPDATE and the speak command or
\* idle status.
IssuedFor(k) ==
    LET of_k == SelectSeq(last.issued, LAMBDA c : c[1] = k)
    IN  [j \in 1..Len(of_k) |-> of_k[j][3]]

C32_TimerFanOutComplete ==
    (/\ last.op = "tick"
     /\ last.arg \in { "time_warning", "time_expired" }
     /\ \E i \in 1..Len(observers) : observers[i] = "bridge")
        => /\ \A c \in 1..Len(last.calls) : last.calls[c][3] = "ok"
           /\ \A k \in 1..Len(last.notified) :
                 IssuedFor(k) = BridgeCommands(last.notified[k])

\* C33: at most one timer loop can emit signals: a loop that stop() or
\* start() has taken the place of while one of its passes was suspended has
\* been cancelled, and the end of a cancelled loop's pass sends no tick,
\* warning or expiry signal and changes neither the phase nor the context
\* nor the timer.
C33_OneLoopEmits ==
    /\ [](in_flight["timer"].op = "tick" /\ in_flight["timer"].replaced
            => in_flight["timer"].cancelled)
    /\ [][ (/\ in_flight["timer"].op = "tick"
            /\ in_flight["timer"].cancelled
            /\ in_flight'["timer"] = NoCall)
             => /\ last'.op = "tickCancelled"
                /\ last'.notified = << >>
                /\ UNCHANGED << state, current_session_index, elapsed_seconds,
                                time_warning_issued, since_session_start, task,
                                total_seconds, warn_signals, expiry_signals >>
         ]_vars

C33_Witness ==
    /\ last.op = "tickCancelled"
    /\ in_flight["timer"] = NoCall
    /\ state = "interacting"
    /\ task = "running"
    /\ since_session_start = 0

\* C34: in every state of a live run whose phase is not ended, some inbound
\* signal changes the phase: an operator command (START_CONFERENCE with the
\* agenda loaded or after a LOAD_AGENDA, NEXT_SESSION, TOGGLE_INTERACT), a
\* turn-complete event, an advance_to_next_session tool call or a signal of
\* the running timer.
PhasesAfterSignal ==
    { HandleStart(a, Connected(Machine)).state :
        a \in (Agendas \cup { agenda }) \ { NoAgenda } }
    \cup { HandleOperatorNext(agenda, Machine).state,
           HandleToggleInteract(agenda, Machine).state,
           OnTurnComplete(agenda, Machine).m.state }
    \cup { HandleAdvanceSession(agenda, Machine, reason).state : reason \in Reasons }
    \cup (IF task = "running"
          THEN { HandleTimeWarning(agenda, Machine).state,
                 HandleTimeExpired(agenda, Machine).state }
          ELSE {})

C34_NoDeadEnd ==
    (running /\ state # "ended") => PhasesAfterSignal # { state }

C36_PausedFlagsAgree == is_paused = timer_paused

\* C37: when a suspended observer call goes on and sends its STATE_UPDATE
\* and no fan-out is suspended after that, the phase it sends is the phase
\* of the state machine: the last STATE_UPDATE is not one for an older
\* phase.
C37_UpdatesInOrder ==
    [][ \A t \in Tasks :
          (/\ in_flight[t] # NoCall
           /\ "phase" \in DOMAIN in_flight[t]
           /\ in_flight'[t] # in_flight[t]
           /\ \A u \in Tasks : in_flight'[u] = NoCall)
             => in_flight[t].phase = state'
      ]_vars

\* C38: a START_CONFERENCE handled in a phase other than idle leaves the
\* phase, the context and the timer as they were, and the run goes on.
C38_StartRejected ==
    [][ (running /\ state # "idle" /\ last'.op = "start")
          => /\ running'
             /\ UNCHANGED << state, agenda, current_session_index,
                             elapsed_seconds, time_warning_issued, is_paused,
                             since_session_start, task, total_seconds,
                             timer_paused, pause_accumulated, since_pause_start >>
      ]_vars

====
